---- MODULE Spec2Model ----
(***************************************************************************)
(* Model of DNQtech/autogame: the template detector's background loop      *)
(* (template_equipment_detector.py), the GameController of start_game.py   *)
(* and the IntelligentGameController of v2/intelligent_game_controller.py  *)
(* with the GlobalStopManager of v2/hotkey_manager.py.                     *)
(*                                                                         *)
(* One run of the model is one run of one of the two entry scripts: the    *)
(* variable program says which.  Threads are modelled by a program counter *)
(* each; a step is one access to shared state (one bytecode-level read or  *)
(* write under the interpreter lock) or one `with lock:` block.            *)
(*                                                                         *)
(* Distances are kept squared: the code takes a square root and compares   *)
(* or sorts, which gives the same order as the squares of the integers.    *)
(* Wall-clock time is modelled by the events that read it: an interval has *)
(* elapsed or not, a record is older than a threshold or not.              *)
(***************************************************************************)
EXTENDS Integers, Sequences, FiniteSets, TLC

----------------------------------------------------------------------------
(* Bounds of the model *)

\* total number of matches the detection side produces in one run
MaxDetections == 2
\* raw candidates (before overlap removal) in one captured frame
MaxRaw == 1
\* configured number of random moves before the return to the centre
\* (set_max_random_moves / movement_config.max_random_moves)
MaxRandomMoves == 1
\* detection-loop threads one detector object can have started in one run
MaxDetThreads == 2
\* calls of start_realtime_detection and stop_realtime_detection that a
\* caller of the detector makes
MaxClientCalls == 3
\* raw candidates of the frame given to a single call of
\* detect_equipment_templates
MaxCandidates == 3
\* values of time.time() at the calls of detect_equipment_templates
MaxClock == 2

\* raw candidates of one frame of the detector driven by its own caller
MaxRawDetector == 2

\* callbacks registered with a GlobalStopManager
MaxCallbacks == 3

\* window controllers running at once in start_v2
MaxControllers == 2

\* calls of move_character in a row
MaxMoveCalls == 3

\* restart attempts in a row that are told apart
MaxRestartFailures == 3

----------------------------------------------------------------------------
(* Program constants *)

screen_width == 1920
screen_height == 1080
screen_center_x == screen_width \div 2
screen_center_y == screen_height \div 2
\* threshold=30 of _is_same_equipment
same_equipment_threshold == 30

\* the boxes (x, y, w, h) a frame can show a template at
Box50 == <<990, 520, 40, 40>>
BoxNear50 == <<998, 522, 40, 40>>
Box80 == <<1020, 520, 40, 40>>
Box300 == <<1240, 520, 40, 40>>
Boxes == {Box50, BoxNear50, Box80, Box300}

\* confidence of a candidate in percent; every one is at or above the match
\* threshold, as match_template_multiscale only returns those
Confidence(box) ==
    CASE box = Box50 -> 90
      [] box = BoxNear50 -> 80
      [] box = Box80 -> 85
      [] OTHER -> 95

Candidates == {[position |-> b, confidence |-> Confidence(b)] : b \in Boxes}

\* the raw candidate lists a frame can give
RawFrames == UNION {[1..n -> Candidates] : n \in 0..MaxRaw}

\* the raw candidate lists of a frame of program p: the detector driven by
\* its own caller is given frames of up to MaxRawDetector candidates
RawFramesOf(p) ==
    IF p = "detector" THEN UNION {[1..n -> Candidates] : n \in 0..MaxRawDetector}
    ELSE RawFrames

\* candidates of a frame for a single detection: template name, box and
\* confidence vary freely. BoxWide and BoxHalf overlap with ratio exactly
\* 1/2, BoxWide and BoxMost with 3/4, BoxHalf and BoxMost with 2/3, BoxWide
\* and BoxEdge with 1/7, BoxAway meets none of them
BoxWide == <<0, 0, 4, 2>>
BoxHalf == <<0, 0, 2, 2>>
BoxMost == <<0, 0, 3, 2>>
BoxEdge == <<3, 0, 4, 2>>
BoxAway == <<10, 10, 2, 2>>
FrameBoxes == {BoxWide, BoxHalf, BoxMost, BoxEdge, BoxAway}
TemplateNames == {"sword", "armor"}
Confidences == {80, 90}
FrameCandidates ==
    [equipment_name : TemplateNames, position : FrameBoxes, confidence : Confidences]
Frames == UNION {[1..n -> FrameCandidates] : n \in 0..MaxCandidates}

----------------------------------------------------------------------------
(* Pure functions *)

Max2(a, b) == IF a >= b THEN a ELSE b
Min2(a, b) == IF a <= b THEN a ELSE b

\* _calculate_overlap, as the pair <<intersection, union>>
CalcOverlap(box1, box2) ==
    LET x_overlap == Max2(0, Min2(box1[1] + box1[3], box2[1] + box2[3]) - Max2(box1[1], box2[1]))
        y_overlap == Max2(0, Min2(box1[2] + box1[4], box2[2] + box2[4]) - Max2(box1[2], box2[2]))
        intersection == x_overlap * y_overlap
    IN <<intersection, box1[3] * box1[4] + box2[3] * box2[4] - intersection>>

\* _calculate_overlap(...) > overlap_threshold with overlap_threshold = 0.5
OverlapsAbove(box1, box2) ==
    LET o == CalcOverlap(box1, box2)
    IN IF o[2] > 0 THEN 2 * o[1] > o[2] ELSE FALSE

\* list.sort / sorted: a stable sort of s by ascending key, key a function
\* on the elements of s
RECURSIVE InsertStable(_, _, _)
InsertStable(s, e, key) ==
    IF s = <<>> THEN <<e>>
    ELSE IF key[e] < key[Head(s)] THEN <<e>> \o s
    ELSE <<Head(s)>> \o InsertStable(Tail(s), e, key)

RECURSIVE SortStable(_, _)
SortStable(s, key) ==
    IF s = <<>> THEN <<>>
    ELSE InsertStable(SortStable(SubSeq(s, 1, Len(s) - 1), key), s[Len(s)], key)

Range(s) == {s[i] : i \in 1..Len(s)}

KeepMatchOrder(matches) == matches

\* matches.sort(key=lambda x: x.confidence, reverse=True)
SortByConfidence(matches) ==
    SortStable(matches, [m \in Range(matches) |-> 0 - m.confidence])

RECURSIVE FilterOverlapping(_, _)
FilterOverlapping(matches, filtered) ==
    IF matches = <<>> THEN filtered
    ELSE LET match == Head(matches)
             is_overlapping == \E i \in 1..Len(filtered) :
                                  OverlapsAbove(match.position, filtered[i].position)
         IN FilterOverlapping(Tail(matches),
                              IF is_overlapping THEN filtered ELSE Append(filtered, match))

\* _remove_overlapping_matches
RemoveOverlapping(matches) ==
    IF matches = <<>> THEN matches
    ELSE FilterOverlapping(SortByConfidence(matches), <<>>)

RECURSIVE SelectSeq2(_, _)
SelectSeq2(s, name) ==
    IF s = <<>> THEN <<>>
    ELSE IF Head(s).equipment_name = name THEN <<Head(s)>> \o SelectSeq2(Tail(s), name)
    ELSE SelectSeq2(Tail(s), name)

RECURSIVE PerTemplate(_, _)
PerTemplate(raw, names) ==
    IF names = {} THEN <<>>
    ELSE LET name == CHOOSE x \in names : TRUE
         IN RemoveOverlapping(SelectSeq2(raw, name)) \o PerTemplate(raw, names \ {name})

DetectTemplatesPerTemplate(raw) ==
    PerTemplate(raw, {raw[i].equipment_name : i \in 1..Len(raw)})

\* match_template_multiscale for every template, on a frame whose
\* candidates are frame: each EquipmentMatch is built with
\* timestamp=time.time()
MatchTemplates(frame, now) ==
    [i \in 1..Len(frame) |->
        [equipment_name |-> frame[i].equipment_name, position |-> frame[i].position,
         confidence |-> frame[i].confidence, timestamp |-> now]]

\* detect_equipment_templates on a frame whose raw candidates, of all
\* templates and scales together, are raw
DetectTemplates(raw) == RemoveOverlapping(raw)

\* _calculate_distance_to_center, squared
DistanceToCenter2(x, y) ==
    (x - screen_center_x) * (x - screen_center_x) + (y - screen_center_y) * (y - screen_center_y)

\* equipment_detected_callback: the centre of a match's box
CenterOf(position) == <<position[1] + position[3] \div 2, position[2] + position[4] \div 2>>

\* _is_same_equipment with the comparison turned round
IsSameEquipmentFarther(eq1, eq2) ==
    LET dx == eq1.position[1] - eq2.position[1]
        dy == eq1.position[2] - eq2.position[2]
    IN dx * dx + dy * dy > same_equipment_threshold * same_equipment_threshold

\* GameController._is_same_equipment: distance < threshold
IsSameEquipment(eq1, eq2) ==
    LET dx == eq1.position[1] - eq2.position[1]
        dy == eq1.position[2] - eq2.position[2]
    IN dx * dx + dy * dy < same_equipment_threshold * same_equipment_threshold

\* the queue left in arrival order, the sort forgotten
KeepArrivalOrder(queue) == queue

\* self.equipment_queue.sort(key=lambda eq: eq['distance'])
SortByDistance(queue) == SortStable(queue, [e \in Range(queue) |-> e.distance])

\* the matches of one detection, stamped with their creation time: the n-th
\* match made in a run carries n
Stamp(matches, base) ==
    [i \in 1..Len(matches) |->
        [position |-> matches[i].position, confidence |-> matches[i].confidence,
         timestamp |-> base + i]]

----------------------------------------------------------------------------
(* State *)

VARIABLES
    program,      \* what runs: "start_game", "start_v2", or "detector", a
                  \* caller that drives a TemplateEquipmentDetector directly
    det,          \* the TemplateEquipmentDetector, its loop threads and, in
                  \* "detector", its caller
    detections,   \* number of matches made so far
    gc,           \* the GameController: its fields and its threads
    igc,          \* the IntelligentGameController: its fields and its threads
    gsm,          \* the GlobalStopManager and the thread that runs its handler
    attempts,     \* history: how often a pickup attempt was made for each record
    stop_in_drain \* history: a stop was requested during the drain pass in progress

vars == <<program, det, detections, gc, igc, gsm, attempts, stop_in_drain>>

DetThreadIds == 1..MaxDetThreads
\* captured: capture_screen_safe gave a frame in the iteration in progress
NoThread == [pc |-> "none", matches |-> <<>>, captured |-> TRUE]
NoEquipment == [position |-> <<>>, distance |-> 0, timestamp |-> 0]

\* TemplateEquipmentDetector.__init__
\* report is the last line start_realtime_detection or
\* stop_realtime_detection printed, returned the value the last call of
\* start_realtime_detection returned to its caller, raised counts the callback exceptions
\* _detection_loop caught, delivered lists the calls of the callback, each
\* as the loop that made it and the timestamp of its match; client and calls are the caller's position and
\* the calls it made; frame is what a frame shows, clock the time of the
\* last call of detect_equipment_templates on it, all_matches and
\* filtered_matches the candidates and the result of the first call,
\* filtered_again the result of a second call on the same frame
DetInit ==
    [templates |-> FALSE, is_running |-> FALSE, result_queue |-> 0,
     threads |-> [t \in DetThreadIds |-> NoThread],
     report |-> "none", returned |-> "", raised |-> 0, delivered |-> <<>>,
     client |-> "load", calls |-> <<>>,
     frame |-> <<>>, clock |-> 0, all_matches |-> <<>>,
     filtered_matches |-> <<>>, filtered_again |-> <<>>]

\* GameController.__init__
\* released: the held keys and buttons were released for the pickup pass in
\* progress; current_aged: current_equipment was stamped more than the
\* staleness threshold ago; unlocked_write: the queue or is_picking_up was
\* written outside `with self.pickup_lock` (every write of the two, lines
\* 100-120, 316-317, 323-325 and 388-391, is inside); restart_failures: the
\* restart attempts of the monitor loop (line 237) in a row that left the
\* detector not running, counted up to MaxRestartFailures;
\* ring_moves: the random moves issued since the last move back to the
\* centre; return_after: when the last move issued was one back to the
\* centre, the number of random moves issued before it
\* MouseKeyboardController.__init__, with the keys and buttons the system
\* sees as held; corner: the cursor is in the corner where pyautogui, with
\* FAILSAFE = True, raises FailSafeException from every call
ControllerInit ==
    [pc |-> "idle", ctrl |-> FALSE, left |-> FALSE, corner |-> FALSE,
     success |-> FALSE, calls |-> 0]

GcInit ==
    [is_running |-> FALSE, is_fighting |-> FALSE, equipment_found |-> FALSE,
     should_stop |-> FALSE, equipment_queue |-> <<>>, is_picking_up |-> FALSE,
     random_move_count |-> 0, detector |-> FALSE,
     main |-> "start", monitor |-> "none", fight |-> "none",
     current_equipment |-> NoEquipment,
     released |-> FALSE, current_aged |-> FALSE, unlocked_write |-> FALSE,
     restart_failures |-> 0, ring_moves |-> 0, return_after |-> {},
     controller |-> ControllerInit]

Quiet == UNCHANGED <<attempts, stop_in_drain>>

----------------------------------------------------------------------------
(* TemplateEquipmentDetector *)

\* start_realtime_detection after its two checks: set the flag, start a
\* thread, print that detection has started
DetSpawn(d) ==
    LET free == {t \in DetThreadIds : d.threads[t].pc = "none"}
        t == CHOOSE x \in free : \A y \in free : x <= y
    IN [d EXCEPT !.is_running = TRUE, !.threads[t] = [pc |-> "loop", matches |-> <<>>, captured |-> TRUE],
                 !.report = "started", !.returned = "None"]

\* start_realtime_detection when Thread.start() raises: line 240 has run,
\* no loop has been started
DetSpawnRaised(d) == [d EXCEPT !.is_running = TRUE]

DetMayStartWhileRunning(d) == d.templates

\* the checks of start_realtime_detection: templates loaded, not running
DetMayStart(d) == d.templates /\ ~d.is_running

\* start_realtime_detection when a check fails: the line it prints, and a
\* bare return
DetStartRefused(d) ==
    [d EXCEPT !.report = IF ~d.templates THEN "no_templates" ELSE "already_running",
              !.returned = "None"]

\* stop_realtime_detection: self.is_running = False
DetClearFlag(d) == [d EXCEPT !.is_running = FALSE]

\* stop_realtime_detection: the line it prints after the join, whatever the
\* join found
DetStopReport(d) == [d EXCEPT !.report = "stopped"]

\* GameController.equipment_detected_callback
EquipmentDetectedCallback(g, match) ==
    LET c == CenterOf(match.position)
        equipment_info == [position |-> c, distance |-> DistanceToCenter2(c[1], c[2]),
                           timestamp |-> match.timestamp]
        is_duplicate == \E i \in 1..Len(g.equipment_queue) :
                            IsSameEquipment(equipment_info, g.equipment_queue[i])
    IN IF is_duplicate THEN g
       ELSE [g EXCEPT !.equipment_queue = SortByDistance(Append(g.equipment_queue, equipment_info)),
                      !.equipment_found = TRUE]

DetNextMatchLast(th) == th.matches[Len(th.matches)]

\* _detection_loop: for match in matches
DetNextMatch(th) == Head(th.matches)

DetAfterCallbackUncaught(th, raises) ==
    IF raises THEN [pc |-> "done", matches |-> <<>>, captured |-> TRUE]
    ELSE [pc |-> IF Len(th.matches) = 1 THEN "post" ELSE "deliver",
          matches |-> Tail(th.matches), captured |-> TRUE]

\* _detection_loop: where the thread is after callback(match) returned or
\* raised: the except clause prints and the for loop goes on
DetAfterCallback(th, raises) ==
    [pc |-> IF Len(th.matches) = 1 THEN "post" ELSE "deliver",
     matches |-> Tail(th.matches), captured |-> TRUE]

SingleDetectionOnAnyFrame(captured, raw) == DetectTemplates(raw)

\* single_detection: capture_screen_safe returns None when the capture
\* failed, and the result is then the empty list
SingleDetection(captured, raw) == IF captured THEN DetectTemplates(raw) ELSE <<>>

\* _detection_loop: the loop test, then single_detection; a failed capture
\* and a frame without a match both give the empty list, and the iteration
\* goes on to its sleep
DetLoopStep(t) ==
    /\ program \in {"start_game", "detector"}
    /\ det.threads[t].pc = "loop"
    /\ IF ~det.is_running
       THEN det' = [det EXCEPT !.threads[t].pc = "done"] /\ UNCHANGED detections
       ELSE \E captured \in BOOLEAN, raw \in RawFramesOf(program) :
              LET found == SingleDetection(captured, raw) IN
              /\ detections + Len(found) <= MaxDetections
              /\ detections' = detections + Len(found)
              /\ det' = [det EXCEPT !.threads[t] =
                           IF found = <<>>
                           THEN [pc |-> "sleep", matches |-> <<>>, captured |-> captured]
                           ELSE [pc |-> "deliver", matches |-> Stamp(found, detections),
                                 captured |-> captured]]
    /\ Quiet
    /\ UNCHANGED <<program, gc, igc, gsm>>

\* _detection_loop: the frame-rate sleep that ends an iteration without a match
DetSleep(t) ==
    /\ program \in {"start_game", "detector"}
    /\ det.threads[t].pc = "sleep"
    /\ det' = [det EXCEPT !.threads[t].pc = "loop", !.threads[t].captured = TRUE]
    /\ Quiet
    /\ UNCHANGED <<program, detections, gc, igc, gsm>>

\* self.result_queue = queue.Queue(): no maxsize is given, and a maxsize of
\* zero or less makes the queue unbounded
result_queue_maxsize == 0

\* Queue.put on a queue of size n: it blocks while maxsize > 0 and the queue
\* holds maxsize items
QueueFull(n) == result_queue_maxsize > 0 /\ n >= result_queue_maxsize

\* _detection_loop: result_queue.put(match); callback(match)
\* the callback of GameController is equipment_detected_callback, whose
\* whole body is inside a try; a caller's own callback may raise
DetDeliver(t) ==
    /\ program \in {"start_game", "detector"}
    /\ det.threads[t].pc = "deliver"
    /\ \E raises \in BOOLEAN :
       LET th == det.threads[t] IN
       /\ raises => program = "detector"
       /\ ~QueueFull(det.result_queue)
       /\ det' = [det EXCEPT !.result_queue = @ + 1,
                             !.raised = IF raises THEN @ + 1 ELSE @,
                             !.delivered = Append(@, <<t, DetNextMatch(th).timestamp>>),
                             !.threads[t] = DetAfterCallback(th, raises)]
       /\ gc' = IF program = "start_game"
                THEN EquipmentDetectedCallback(gc, DetNextMatch(th))
                ELSE gc
    /\ Quiet
    /\ UNCHANGED <<program, detections, igc, gsm>>

\* _detection_loop: the check after the callbacks, which sets is_running
\* again when it finds it cleared; then the frame-rate sleep
DetPostCheck(t) ==
    /\ program \in {"start_game", "detector"}
    /\ det.threads[t].pc = "post"
    /\ det' = [det EXCEPT !.is_running = TRUE, !.threads[t].pc = "loop"]
    /\ Quiet
    /\ UNCHANGED <<program, detections, gc, igc, gsm>>

----------------------------------------------------------------------------
(* A caller of the detector: load_templates_from_folder, then calls of
   start_realtime_detection and stop_realtime_detection in any order *)

\* load_templates_from_folder: some image was loaded, or none
DetClientLoad ==
    /\ program = "detector"
    /\ det.client = "load"
    /\ \E loaded \in BOOLEAN :
         det' = [det EXCEPT !.templates = loaded, !.client = "ready"]
    /\ Quiet
    /\ UNCHANGED <<program, detections, gc, igc, gsm>>

\* start_realtime_detection
DetClientStart ==
    /\ program = "detector"
    /\ det.client = "ready"
    /\ Len(det.calls) < MaxClientCalls
    /\ DetMayStart(det) => \E t \in DetThreadIds : det.threads[t].pc = "none"
    /\ det' = [(IF DetMayStart(det) THEN DetSpawn(det) ELSE DetStartRefused(det))
                 EXCEPT !.calls = Append(@, "start")]
    /\ Quiet
    /\ UNCHANGED <<program, detections, gc, igc, gsm>>

\* stop_realtime_detection: self.is_running = False
DetClientStopFlag ==
    /\ program = "detector"
    /\ det.client = "ready"
    /\ Len(det.calls) < MaxClientCalls
    /\ det' = [DetClearFlag(det) EXCEPT !.calls = Append(@, "stop"), !.client = "join"]
    /\ Quiet
    /\ UNCHANGED <<program, detections, gc, igc, gsm>>

\* stop_realtime_detection: join(timeout=2.0) returns, the thread ended or
\* not; the line is printed
DetClientStopJoin ==
    /\ program = "detector"
    /\ det.client = "join"
    /\ det' = [DetStopReport(det) EXCEPT !.client = "ready"]
    /\ Quiet
    /\ UNCHANGED <<program, detections, gc, igc, gsm>>

\* detect_equipment_templates, called once on a frame
DetSingleDetection ==
    /\ program = "single_detection"
    /\ det.client = "load"
    /\ \E now \in 1..MaxClock :
         det' = [det EXCEPT !.clock = now,
                            !.all_matches = MatchTemplates(det.frame, now),
                            !.filtered_matches = DetectTemplates(MatchTemplates(det.frame, now)),
                            !.client = "done"]
    /\ Quiet
    /\ UNCHANGED <<program, detections, gc, igc, gsm>>

\* detect_equipment_templates, called again on the same frame, at the same
\* reading of the clock or a later one
DetSecondDetection ==
    /\ program = "single_detection"
    /\ det.client = "done"
    /\ \E now \in det.clock..MaxClock :
         det' = [det EXCEPT !.clock = now,
                            !.filtered_again = DetectTemplates(MatchTemplates(det.frame, now)),
                            !.client = "twice"]
    /\ Quiet
    /\ UNCHANGED <<program, detections, gc, igc, gsm>>

DetThreadNext ==
    \E t \in DetThreadIds : DetLoopStep(t) \/ DetSleep(t) \/ DetDeliver(t) \/ DetPostCheck(t)

DetectorNext ==
    \/ DetClientLoad \/ DetClientStart \/ DetClientStopFlag \/ DetClientStopJoin
    \/ DetThreadNext

----------------------------------------------------------------------------
(* GameController: the main thread *)

\* start(): is_running = True, setup_keyboard_listener()
GcStart ==
    /\ program = "start_game"
    /\ gc.main = "start"
    /\ gc' = [gc EXCEPT !.is_running = TRUE, !.main = "monitor"]
    /\ Quiet
    /\ UNCHANGED <<program, det, detections, igc, gsm>>

\* start_equipment_monitor(): the detector is made and the templates are
\* loaded; the monitor thread is started when at least one was loaded
GcStartEquipmentMonitor ==
    /\ program = "start_game"
    /\ gc.main = "monitor"
    /\ \E loaded \in BOOLEAN :
         /\ det' = [det EXCEPT !.templates = loaded]
         /\ gc' = [gc EXCEPT !.detector = TRUE, !.main = "fighting",
                             !.monitor = IF loaded THEN "start" ELSE "none"]
    /\ Quiet
    /\ UNCHANGED <<program, detections, igc, gsm>>

\* start_fighting()
GcStartFighting ==
    /\ program = "start_game"
    /\ gc.main = "fighting"
    /\ gc' = [gc EXCEPT !.is_fighting = TRUE, !.fight = "while", !.main = "wait"]
    /\ Quiet
    /\ UNCHANGED <<program, det, detections, igc, gsm>>

\* start(): the wait loop ends on is_running = False or should_stop
GcWaitEnds ==
    /\ program = "start_game"
    /\ gc.main = "wait"
    /\ ~gc.is_running \/ gc.should_stop
    /\ gc' = [gc EXCEPT !.main = "stop1"]
    /\ Quiet
    /\ UNCHANGED <<program, det, detections, igc, gsm>>

\* start(): KeyboardInterrupt inside the try block
GcKeyboardInterrupt ==
    /\ program = "start_game"
    /\ gc.main \in {"monitor", "fighting", "wait"}
    /\ gc' = [gc EXCEPT !.main = "stop1"]
    /\ Quiet
    /\ UNCHANGED <<program, det, detections, igc, gsm>>

\* stop(): with self.stop_lock: self.should_stop = True
GcStopFlag ==
    /\ program = "start_game"
    /\ gc.main = "stop1"
    /\ gc' = [gc EXCEPT !.should_stop = TRUE, !.main = "stop2"]
    /\ stop_in_drain' = (stop_in_drain \/ gc.is_picking_up)
    /\ UNCHANGED attempts
    /\ UNCHANGED <<program, det, detections, igc, gsm>>

\* stop(): self.is_running = False; self.is_fighting = False;
\* keyboard.clear_all_hotkeys()
GcStopRunning ==
    /\ program = "start_game"
    /\ gc.main = "stop2"
    /\ gc' = [gc EXCEPT !.is_running = FALSE, !.is_fighting = FALSE, !.main = "stop3"]
    /\ Quiet
    /\ UNCHANGED <<program, det, detections, igc, gsm>>

\* stop(): self.detector.stop_realtime_detection() clears the detector's
\* flag; then the joins, each bounded by its timeout, and the return
GcStopDetector ==
    /\ program = "start_game"
    /\ gc.main = "stop3"
    /\ det' = IF gc.detector THEN DetStopReport(DetClearFlag(det)) ELSE det
    /\ gc' = [gc EXCEPT !.main = "stopped"]
    /\ Quiet
    /\ UNCHANGED <<program, detections, igc, gsm>>

\* on_hotkey (Ctrl+Q), registered from setup_keyboard_listener until
\* clear_all_hotkeys
GcHotkey ==
    /\ program = "start_game"
    /\ gc.main \in {"monitor", "fighting", "wait", "stop1", "stop2"}
    /\ ~gc.should_stop
    /\ gc' = [gc EXCEPT !.should_stop = TRUE, !.is_running = FALSE, !.is_fighting = FALSE]
    /\ stop_in_drain' = (stop_in_drain \/ gc.is_picking_up)
    /\ UNCHANGED attempts
    /\ UNCHANGED <<program, det, detections, igc, gsm>>

----------------------------------------------------------------------------
(* GameController: the monitor thread (_equipment_monitor_loop) *)

\* the restart attempts in a row that failed, after one more of them; the
\* loop keeps no such count and no branch of it depends on one
GcRestartFailed(n) == IF n < MaxRestartFailures THEN n + 1 ELSE n

\* where the monitor goes after a call of start_realtime_detection that
\* started no thread: a refused call returns, and the loop goes on to its
\* while test; an exception of the first call (line 224) reaches the outer
\* except and the finally block, one of a restart (line 237) is caught at
\* line 242, and after time.sleep(5) and time.sleep(1) the while test follows
GcAfterStartRetryAtOnce(from) ==
    IF from \in {"restart", "restart_go"} THEN "restart"
    ELSE IF from = "start_go" THEN "finally" ELSE "while"

GcAfterStart(from) == IF from = "start_go" THEN "finally" ELSE "while"

\* start_realtime_detection: its checks (line 224 first, line 237 on a
\* restart); a refused call returns without raising, so the loop goes on to
\* its time.sleep(1) and the next round
GcMonitorStartCheck ==
    /\ program = "start_game"
    /\ gc.monitor \in {"start", "restart"}
    /\ gc' = [gc EXCEPT !.monitor = IF DetMayStart(det)
                                    THEN (IF gc.monitor = "start" THEN "start_go"
                                                                  ELSE "restart_go")
                                    ELSE GcAfterStart(gc.monitor),
                        !.restart_failures =
                            IF gc.monitor = "restart" /\ ~DetMayStart(det)
                            THEN GcRestartFailed(@) ELSE @]
    /\ det' = IF DetMayStart(det) THEN det ELSE DetStartRefused(det)
    /\ Quiet
    /\ UNCHANGED <<program, detections, igc, gsm>>

\* start_realtime_detection: is_running = True, the thread is started;
\* Thread.start() raises RuntimeError when no thread can be started, after
\* line 240 has set the flag
GcMonitorStartGo ==
    /\ program = "start_game"
    /\ gc.monitor \in {"start_go", "restart_go"}
    /\ \E t \in DetThreadIds : det.threads[t].pc = "none"
    /\ \E raised \in BOOLEAN :
         IF raised
         THEN /\ det' = DetSpawnRaised(det)
              /\ gc' = [gc EXCEPT !.monitor = GcAfterStart(gc.monitor),
                                  !.restart_failures =
                                      IF gc.monitor = "restart_go"
                                      THEN GcRestartFailed(@) ELSE @]
         ELSE /\ det' = DetSpawn(det)
              /\ gc' = [gc EXCEPT !.monitor = "while", !.restart_failures = 0]
    /\ Quiet
    /\ UNCHANGED <<program, detections, igc, gsm>>

\* while self.is_running
GcMonitorWhile ==
    /\ program = "start_game"
    /\ gc.monitor = "while"
    /\ gc' = [gc EXCEPT !.monitor = IF gc.is_running THEN "chk" ELSE "finally"]
    /\ Quiet
    /\ UNCHANGED <<program, det, detections, igc, gsm>>

\* if not self.detector.is_running: restart; then time.sleep(1)
GcMonitorCheckDetector ==
    /\ program = "start_game"
    /\ gc.monitor = "chk"
    /\ gc' = [gc EXCEPT !.monitor = IF ~det.is_running THEN "restart" ELSE "while"]
    /\ Quiet
    /\ UNCHANGED <<program, det, detections, igc, gsm>>

\* finally: self.detector.stop_realtime_detection()
GcMonitorFinally ==
    /\ program = "start_game"
    /\ gc.monitor = "finally"
    /\ det' = DetStopReport(DetClearFlag(det))
    /\ gc' = [gc EXCEPT !.monitor = "done"]
    /\ Quiet
    /\ UNCHANGED <<program, detections, igc, gsm>>

----------------------------------------------------------------------------
(* GameController: the fight thread (_fighting_loop) *)

\* the runs in which the fight thread of GameController takes its steps:
\* start_game.py from its first line, and "steady", the same program once
\* start() has started its threads, with frames that show targets for ever
GcPrograms == {"start_game", "steady"}

\* the keyword arguments MouseKeyboardController.pickup_equipment takes
PickupEquipmentParams == {"pickup_duration"}
\* _pickup_single_equipment: self.controller.pickup_equipment(x, y,
\* pickup_duration=3.0, method="auto") raises TypeError unless every keyword
\* is a parameter; the handler of _pickup_single_equipment turns that into False
GcPickupReachesDriver == {"pickup_duration", "method"} \subseteq PickupEquipmentParams

\* while self.is_running and self.is_fighting, and the check of should_stop
\* under stop_lock that follows it (should_stop is set no later than the two
\* flags are cleared, so the three reads act as one)
GcFightWhile ==
    /\ program \in GcPrograms
    /\ gc.fight = "while"
    /\ gc' = [gc EXCEPT !.fight = IF gc.is_running /\ gc.is_fighting /\ ~gc.should_stop
                                  THEN "eqchk" ELSE "done"]
    /\ Quiet
    /\ UNCHANGED <<program, det, detections, igc, gsm>>

\* the condition of line 302 that starts the pickup
GcShouldPickup(g) == g.equipment_found /\ ~g.is_picking_up

\* if self.equipment_found and not self.is_picking_up: release the held keys
\* and buttons (pyautogui.keyUp, mouseUp) before the pickup starts
GcFightEquipmentCheck ==
    /\ program \in GcPrograms
    /\ gc.fight = "eqchk"
    /\ gc' = [gc EXCEPT !.fight = IF GcShouldPickup(gc) THEN "setpick" ELSE "combat",
                        !.released = GcShouldPickup(gc)]
    /\ Quiet
    /\ UNCHANGED <<program, det, detections, igc, gsm>>

\* with self.pickup_lock: self.is_picking_up = True
GcFightSetPickingUp ==
    /\ program \in GcPrograms
    /\ gc.fight = "setpick"
    /\ gc' = [gc EXCEPT !.is_picking_up = TRUE, !.fight = "drain"]
    /\ Quiet
    /\ UNCHANGED <<program, det, detections, igc, gsm>>

\* GcProcessQueueNext reading the head (queue[0]) without removing it
GcProcessQueuePeek(g) ==
    IF g.equipment_queue = <<>>
    THEN [g EXCEPT !.fight = "clear"]
    ELSE [g EXCEPT !.current_equipment = Head(g.equipment_queue), !.fight = "pickup"]

\* _process_equipment_queue: with self.pickup_lock: break on an empty queue,
\* else current_equipment = self.equipment_queue.pop(0)
GcProcessQueueNext(g) ==
    IF g.equipment_queue = <<>>
    THEN [g EXCEPT !.fight = "clear"]
    ELSE [g EXCEPT !.current_equipment = Head(g.equipment_queue),
                   !.equipment_queue = Tail(g.equipment_queue),
                   !.fight = "pickup"]

\* the target taken may have waited in the queue for any time
GcFightDrain ==
    /\ program \in GcPrograms
    /\ gc.fight = "drain"
    /\ \E aged \in BOOLEAN :
         gc' = [GcProcessQueueNext(gc) EXCEPT
                   !.current_aged = aged /\ GcProcessQueueNext(gc).fight = "pickup"]
    /\ Quiet
    /\ UNCHANGED <<program, det, detections, igc, gsm>>

GcAfterPickupRetry(g, success) == IF success THEN [g EXCEPT !.fight = "drain"] ELSE g

\* _process_equipment_queue after _pickup_single_equipment returned success:
\* either branch prints, then time.sleep(0.5) and the next round of the loop
GcAfterPickup(g, success) == [g EXCEPT !.fight = "drain"]

\* GameController._verify_equipment_exists: prints the position and
\* returns True; the record's timestamp is not read
GcVerifyEquipmentExists(equipment_info, aged) == TRUE

\* _verify_equipment_exists, then _pickup_single_equipment, which returns
\* False when the driver reports a failure or the call raises; sleep(0.5)
GcFightPickup ==
    /\ program \in GcPrograms
    /\ gc.fight = "pickup"
    /\ IF GcVerifyEquipmentExists(gc.current_equipment, gc.current_aged)
       THEN /\ attempts' = IF program = "start_game"
                            THEN [attempts EXCEPT ![gc.current_equipment.timestamp] = @ + 1]
                            ELSE attempts
            /\ \E driver_ok \in BOOLEAN :
                 gc' = [GcAfterPickup(gc, GcPickupReachesDriver /\ driver_ok)
                           EXCEPT !.current_aged = FALSE]
       ELSE /\ attempts' = attempts
            /\ gc' = [gc EXCEPT !.fight = "drain", !.current_aged = FALSE]
    /\ UNCHANGED <<program, det, detections, igc, gsm, stop_in_drain>>

\* GcEndPickup without the reset of is_picking_up
GcEndPickupKeepsFlag(g) == [g EXCEPT !.equipment_found = FALSE, !.fight = "while"]

\* with self.pickup_lock: is_picking_up = False; equipment_found = False
GcEndPickup(g) ==
    [g EXCEPT !.is_picking_up = FALSE, !.equipment_found = FALSE, !.fight = "while"]

GcFightClear ==
    /\ program \in GcPrograms
    /\ gc.fight = "clear"
    /\ gc' = [GcEndPickup(gc) EXCEPT !.released = FALSE]
    /\ stop_in_drain' = FALSE
    /\ UNCHANGED attempts
    /\ UNCHANGED <<program, det, detections, igc, gsm>>

GcMoveLate(g) ==
    IF g.random_move_count > MaxRandomMoves
    THEN [g EXCEPT !.random_move_count = 0, !.return_after = {g.ring_moves},
                   !.ring_moves = 0]
    ELSE [g EXCEPT !.random_move_count = @ + 1, !.ring_moves = @ + 1,
                   !.return_after = {}]

\* the move block, lines 335-344: at max_random_moves the move is
\* return_to_center() and the count is reset, below it the move is a random
\* one and is counted
GcMove(g) ==
    IF g.random_move_count >= MaxRandomMoves
    THEN [g EXCEPT !.random_move_count = 0, !.return_after = {g.ring_moves},
                   !.ring_moves = 0]
    ELSE [g EXCEPT !.random_move_count = @ + 1, !.ring_moves = @ + 1,
                   !.return_after = {}]

\* the move block (lines 333-355) and the attack block (lines 358-372), each
\* run when its interval has elapsed, then time.sleep(0.1)
GcFightCombat ==
    /\ program \in GcPrograms
    /\ gc.fight = "combat"
    /\ \E move_due \in BOOLEAN :
         gc' = [(IF move_due THEN GcMove(gc) ELSE gc) EXCEPT !.fight = "while"]
    /\ Quiet
    /\ UNCHANGED <<program, det, detections, igc, gsm>>

----------------------------------------------------------------------------
(* IntelligentGameController and GlobalStopManager (v2) *)

NoEquipmentInfo == [position |-> <<>>, timestamp |-> 0]

\* IntelligentGameController.__init__, which registers self.stop with the
\* global stop manager
\* the runs in which the threads of IntelligentGameController take their
\* steps: start_v2.py, and "v2_client", a caller that calls start and stop
\* of one controller in any order
IgcPrograms == {"start_v2", "v2_client"}

\* what a control thread keeps to itself: where it is, and its local
\* variables
\* the controllers start_v2 runs, one per game window
Controllers == 1..MaxControllers

\* the system cursor and keyboard, _global_input_lock, and the input call
\* each controller's control thread is in. cursor is the controller whose
\* target the cursor is on (0: where the user left it), saved is current_pos
\* of inject_game_move_character, lock is the holder of _global_input_lock
SystemInputInit ==
    [pc |-> [c \in Controllers |-> "idle"],
     action |-> [c \in Controllers |-> "none"],
     saved |-> [c \in Controllers |-> 0],
     lock |-> 0, cursor |-> 0, ctrl |-> FALSE, left |-> FALSE]

IgcNoControl ==
    [control |-> "none", same_list |-> FALSE, sorted_equipment |-> <<>>, next |-> 1,
     processed_equipment |-> <<>>, equipment_info |-> NoEquipmentInfo]

IgcInit ==
    [is_running |-> FALSE, is_fighting |-> FALSE, is_picking_up |-> FALSE,
     should_stop |-> FALSE, equipment_queue |-> <<>>, random_move_count |-> 0,
     templates |-> FALSE,
     in_cooldown |-> FALSE,    \* time.time() - last_pickup_time < pickup_cooldown
     stale_upto |-> 0,         \* records stamped up to this are older than 5 s
     main |-> "start", control |-> "none", monitor |-> "none",
     screenshot |-> TRUE,      \* the last get_window_screenshot gave a frame
     released |-> FALSE,       \* held inputs were released for the pass in progress
     unlocked_write |-> FALSE, \* the queue or is_picking_up was written
                               \* outside `with self.control_lock`
     ring_moves |-> 0,         \* random moves issued since the last move back
                               \* to the centre
     return_after |-> {},      \* when the last move issued was one back to the
                               \* centre: the random moves issued before it
     matches |-> <<>>,         \* _detect_equipment: the matches still to append
     same_list |-> FALSE,      \* sorted_equipment is the queue object itself
     sorted_equipment |-> <<>>, next |-> 1, processed_equipment |-> <<>>,
     equipment_info |-> NoEquipmentInfo,
     calls |-> <<>>,           \* the calls of start and stop a caller made
     control_earlier |-> IgcNoControl,  \* the control thread of an earlier start()
     input |-> SystemInputInit]

\* who calls _handle_stop_request: the hotkey thread on Ctrl+Q, and the
\* signal handler, which runs on the main thread
GsmRequesters == {"hotkey", "signal"}

\* one call of _handle_stop_request: where it is, the index of the callback
\* its for loop comes to next, and how many callbacks were registered when it
\* was made
GsmNoRequest == [pc |-> "idle", next |-> 1, before |-> 0]

\* GlobalStopManager.__init__, and the callback every controller registers
\* in its own __init__; invoked lists the calls of the callbacks, each as the
\* requester that made it, the callback's place in stop_callbacks and whether
\* the callback raised
GsmInit ==
    [stop_requested |-> FALSE, stop_callbacks |-> 1, handler |-> "idle", called |-> 0,
     requests |-> [r \in GsmRequesters |-> GsmNoRequest], invoked |-> <<>>]

\* `x, y = equipment['position']` succeeds on a pair only
UnpacksToPair(position) == Len(position) = 2

\* calculate_distance raises for one of the records, so sorted() raises
IgcSortRaises(equipment_list) ==
    \E i \in 1..Len(equipment_list) : ~UnpacksToPair(equipment_list[i].position)

\* _sort_equipment_by_distance: the sorted copy, or on an exception the
\* list it was given
IgcSortEquipmentByDistance(equipment_list) ==
    IF equipment_list = <<>> THEN <<>>
    ELSE IF IgcSortRaises(equipment_list) THEN equipment_list
    ELSE SortStable(equipment_list,
                    [e \in Range(equipment_list) |->
                        DistanceToCenter2(e.position[1], e.position[2])])

\* _verify_equipment_exists: not older than 5 seconds
IgcVerifyEquipmentExists(c, equipment_info) == equipment_info.timestamp > c.stale_upto

\* the list the pickup loop iterates: the queue itself when the sort gave
\* its argument back, else the sorted copy
IgcIterated(c) == IF c.same_list THEN c.equipment_queue ELSE c.sorted_equipment

\* list.remove(x): drops the first element equal to x
RECURSIVE RemoveFirst(_, _)
RemoveFirst(s, x) ==
    IF s = <<>> THEN <<>>
    ELSE IF Head(s) = x THEN Tail(s)
    ELSE <<Head(s)>> \o RemoveFirst(Tail(s), x)

\* for equipment in processed_equipment: if equipment in queue: queue.remove(equipment)
RECURSIVE RemoveProcessed(_, _)
RemoveProcessed(queue, processed) ==
    IF processed = <<>> THEN queue
    ELSE RemoveProcessed(RemoveFirst(queue, Head(processed)), Tail(processed))

\* IntelligentGameController.stop: the three flags; the joins that follow
\* are bounded by their timeouts and change nothing
IgcStop(c) == [c EXCEPT !.should_stop = TRUE, !.is_running = FALSE, !.is_fighting = FALSE]

IgcControlOf(c) ==
    [control |-> c.control, same_list |-> c.same_list,
     sorted_equipment |-> c.sorted_equipment, next |-> c.next,
     processed_equipment |-> c.processed_equipment, equipment_info |-> c.equipment_info]

IgcWithControl(c, th) ==
    [c EXCEPT !.control = th.control, !.same_list = th.same_list,
              !.sorted_equipment = th.sorted_equipment, !.next = th.next,
              !.processed_equipment = th.processed_equipment,
              !.equipment_info = th.equipment_info]

\* threading.Thread.is_alive of a thread at pc
IgcAlive(pc) == pc \notin {"none", "done"}

\* start(): the test that lets the call go on, `if self.is_running: return`
IgcMayStart(c) == ~c.is_running

\* start() past its test and initialize(): the flags, and two new threads;
\* self.control_thread is overwritten, and the thread it named goes on if
\* it has not exited
IgcStartThreads(c, loaded) ==
    LET kept == [c EXCEPT !.control_earlier =
                              IF IgcAlive(c.control) THEN IgcControlOf(c) ELSE @]
    IN [IgcWithControl(kept, [IgcNoControl EXCEPT !.control = "while"])
           EXCEPT !.is_running = TRUE, !.should_stop = FALSE, !.templates = loaded,
                  !.monitor = "while", !.matches = <<>>]

\* a caller's controller.start()
IgcClientStart ==
    /\ program = "v2_client"
    /\ igc.main = "start"
    /\ Len(igc.calls) < MaxClientCalls
    /\ ~(IgcAlive(igc.control) /\ IgcAlive(igc.control_earlier.control))
    /\ \E initialized \in BOOLEAN, loaded \in BOOLEAN :
         igc' = [(IF IgcMayStart(igc) /\ initialized THEN IgcStartThreads(igc, loaded) ELSE igc)
                    EXCEPT !.calls = Append(igc.calls, "start")]
    /\ UNCHANGED <<program, det, detections, gc, gsm, attempts, stop_in_drain>>

\* a caller's controller.stop(): the three flags
IgcClientStop ==
    /\ program = "v2_client"
    /\ igc.main = "start"
    /\ Len(igc.calls) < MaxClientCalls
    /\ igc' = [IgcStop(igc) EXCEPT !.calls = Append(igc.calls, "stop"),
                                   !.main = "join_control"]
    /\ stop_in_drain' = (stop_in_drain \/ igc.is_picking_up)
    /\ UNCHANGED <<program, det, detections, gc, gsm, attempts>>

\* the places of the control thread inside _handle_equipment_pickup, where
\* it sleeps 1.5 s per target and reads no flag
IgcInPickupPass(pc) == pc \in {"pickup", "iterate", "attempt", "cleanup"}

\* stop(): self.control_thread.join(timeout=2.0) returns when the thread
\* named by self.control_thread has exited, or after 2 seconds, which a
\* pickup pass outlasts
IgcClientJoinControl ==
    /\ program = "v2_client"
    /\ igc.main = "join_control"
    /\ ~IgcAlive(igc.control) \/ IgcInPickupPass(igc.control)
    /\ igc' = [igc EXCEPT !.main = "join_monitor"]
    /\ UNCHANGED <<program, det, detections, gc, gsm, attempts, stop_in_drain>>

\* stop(): self.equipment_monitor_thread.join(timeout=2.0); a round of the
\* monitor loop is short of that, and the call returns
IgcClientJoinMonitor ==
    /\ program = "v2_client"
    /\ igc.main = "join_monitor"
    /\ ~IgcAlive(igc.monitor)
    /\ igc' = [igc EXCEPT !.main = "start"]
    /\ UNCHANGED <<program, det, detections, gc, gsm, attempts, stop_in_drain>>

\* the control thread of the earlier start() is the one that runs next
IgcSwitchControl ==
    /\ program = "v2_client"
    /\ IgcAlive(igc.control_earlier.control)
    /\ igc' = [IgcWithControl(igc, igc.control_earlier)
                  EXCEPT !.control_earlier = IgcControlOf(igc)]
    /\ UNCHANGED <<program, det, detections, gc, gsm, attempts, stop_in_drain>>

\* register_stop_callback, called on the main thread, which a signal handler
\* that is running holds up
GsmRegisterStopCallback ==
    /\ program = "stop_manager"
    /\ gsm.stop_callbacks < MaxCallbacks
    /\ gsm.requests["signal"].pc \in {"idle", "returned", "done"}
    /\ gsm.requests["hotkey"].pc # "exited"
    /\ gsm' = [gsm EXCEPT !.stop_callbacks = @ + 1]
    /\ UNCHANGED <<program, det, detections, gc, igc, attempts, stop_in_drain>>

\* _handle_stop_request: `if self.stop_requested: return`
GsmRequestTest(r) ==
    /\ program = "stop_manager"
    /\ gsm.requests[r].pc \in {"idle", "returned", "done"}
    /\ gsm' = [gsm EXCEPT !.requests[r] =
                  [pc |-> IF gsm.stop_requested THEN "returned" ELSE "set",
                   next |-> 1, before |-> gsm.stop_callbacks]]
    /\ UNCHANGED <<program, det, detections, gc, igc, attempts, stop_in_drain>>

\* _handle_stop_request: self.stop_requested = True
GsmRequestSet(r) ==
    /\ program = "stop_manager"
    /\ gsm.requests[r].pc = "set"
    /\ gsm' = [gsm EXCEPT !.stop_requested = TRUE, !.requests[r].pc = "callbacks"]
    /\ UNCHANGED <<program, det, detections, gc, igc, attempts, stop_in_drain>>

GsmAfterCallbackUncaught(req, raises) ==
    IF raises THEN [req EXCEPT !.pc = "done"] ELSE [req EXCEPT !.next = @ + 1]

\* _handle_stop_request: callback() inside try/except inside the for loop:
\* an exception is printed and the loop goes on
GsmAfterCallback(req, raises) == [req EXCEPT !.next = @ + 1]

\* _handle_stop_request: one round of `for callback in self.stop_callbacks`,
\* which reads the list as it is when the round begins
GsmRequestCallback(r) ==
    /\ program = "stop_manager"
    /\ gsm.requests[r].pc = "callbacks"
    /\ IF gsm.requests[r].next <= gsm.stop_callbacks
       THEN \E raises \in BOOLEAN :
              gsm' = [gsm EXCEPT !.invoked = Append(@, <<r, gsm.requests[r].next, raises>>),
                                 !.requests[r] = GsmAfterCallback(@, raises)]
       ELSE gsm' = [gsm EXCEPT !.requests[r].pc = "done"]
    /\ UNCHANGED <<program, det, detections, gc, igc, attempts, stop_in_drain>>

\* _handle_stop_request: delayed_exit, started by a request that has been
\* through its callbacks, ends the process two seconds later
GsmDelayedExit ==
    /\ program = "stop_manager"
    /\ \E r \in GsmRequesters : gsm.requests[r].pc = "done"
    /\ gsm' = [gsm EXCEPT !.requests = [r \in GsmRequesters |-> [@[r] EXCEPT !.pc = "exited"]]]
    /\ UNCHANGED <<program, det, detections, gc, igc, attempts, stop_in_drain>>

\* start_v2.main: controller.start(): initialize() may fail; else the flags
\* are set and the two threads are started
IgcStart ==
    /\ program = "start_v2"
    /\ igc.main = "start"
    /\ \E initialized \in BOOLEAN, loaded \in BOOLEAN :
         igc' = IF initialized
                THEN [igc EXCEPT !.is_running = TRUE, !.should_stop = FALSE,
                                 !.templates = loaded, !.control = "while",
                                 !.monitor = "while", !.main = "register"]
                ELSE [igc EXCEPT !.main = "register"]
    /\ UNCHANGED <<program, det, detections, gc, gsm, attempts, stop_in_drain>>

\* start_v2.main: register_stop_callback(stop_all_controllers)
IgcMainRegister ==
    /\ program = "start_v2"
    /\ igc.main = "register"
    /\ igc' = [igc EXCEPT !.main = "run"]
    /\ gsm' = [gsm EXCEPT !.stop_callbacks = @ + 1]
    /\ UNCHANGED <<program, det, detections, gc, attempts, stop_in_drain>>

\* start_v2.main: the wait loop ends on a stop request or when no controller
\* is running; then controller.stop()
IgcMainStop ==
    /\ program = "start_v2"
    /\ igc.main = "run"
    /\ gsm.stop_requested \/ ~igc.is_running
    /\ igc' = [IgcStop(igc) EXCEPT !.main = "exit"]
    /\ stop_in_drain' = (stop_in_drain \/ igc.is_picking_up)
    /\ UNCHANGED <<program, det, detections, gc, gsm, attempts>>

\* _handle_stop_request (Ctrl+Q on the hotkey thread): the test and the
\* assignment of stop_requested
GsmHandleStopRequest ==
    /\ program = "start_v2"
    /\ gsm.handler = "idle"
    /\ ~gsm.stop_requested
    /\ gsm' = [gsm EXCEPT !.stop_requested = TRUE, !.handler = "callbacks"]
    /\ stop_in_drain' = (stop_in_drain \/ igc.is_picking_up)
    /\ UNCHANGED <<program, det, detections, gc, igc, attempts>>

\* _handle_stop_request: the next registered callback; each of them stops
\* the controller
GsmCallback ==
    /\ program = "start_v2"
    /\ gsm.handler = "callbacks"
    /\ IF gsm.called < gsm.stop_callbacks
       THEN /\ gsm' = [gsm EXCEPT !.called = @ + 1]
            /\ igc' = IgcStop(igc)
       ELSE /\ gsm' = [gsm EXCEPT !.handler = "done"]
            /\ UNCHANGED igc
    /\ stop_in_drain' = (stop_in_drain \/ (gsm.called < gsm.stop_callbacks /\ igc.is_picking_up))
    /\ UNCHANGED <<program, det, detections, gc, attempts>>

\* _control_loop: the while condition and the window check
IgcControlWhile ==
    /\ program \in IgcPrograms
    /\ igc.control = "while"
    /\ \E window_valid \in BOOLEAN :
         igc' = [igc EXCEPT !.control =
                    IF igc.is_running /\ ~igc.should_stop /\ ~gsm.stop_requested /\ window_valid
                    THEN "qchk" ELSE "done"]
    /\ UNCHANGED <<program, det, detections, gc, gsm, attempts, stop_in_drain>>

\* _control_loop line 229, and the first two tests of _handle_equipment_pickup
\* (the cooldown, the empty queue), after which its finally block runs
IgcControlQueueCheck ==
    /\ program \in IgcPrograms
    /\ igc.control = "qchk"
    /\ igc' = [igc EXCEPT !.control =
                  IF igc.equipment_queue # <<>> /\ ~igc.is_picking_up
                  THEN IF igc.in_cooldown THEN "cchk" ELSE "pickup"
                  ELSE "cchk"]
    /\ UNCHANGED <<program, det, detections, gc, gsm, attempts, stop_in_drain>>

\* _handle_equipment_pickup: is_picking_up = True under control_lock, then
\* sorted_equipment = self._sort_equipment_by_distance(self.equipment_queue)
IgcBeginPickup(c) ==
    [c EXCEPT !.is_picking_up = TRUE,
              !.same_list = IgcSortRaises(c.equipment_queue),
              !.sorted_equipment = IF IgcSortRaises(c.equipment_queue) THEN <<>>
                                   ELSE IgcSortEquipmentByDistance(c.equipment_queue),
              !.next = 1, !.processed_equipment = <<>>, !.control = "iterate"]

IgcControlBeginPickup ==
    /\ program \in IgcPrograms
    /\ igc.control = "pickup"
    /\ igc' = IgcBeginPickup(igc)
    /\ UNCHANGED <<program, det, detections, gc, gsm, attempts, stop_in_drain>>

\* _handle_equipment_pickup: the head of one round of `for equipment_info in
\* sorted_equipment`: the end of the loop, or the next record and its
\* verification; a stale record is recorded as processed and skipped
IgcControlIterate ==
    /\ program \in IgcPrograms
    /\ igc.control = "iterate"
    /\ igc' = IF igc.next > Len(IgcIterated(igc))
              THEN [igc EXCEPT !.control = "cleanup"]
              ELSE IF IgcVerifyEquipmentExists(igc, IgcIterated(igc)[igc.next])
              THEN [igc EXCEPT !.equipment_info = IgcIterated(igc)[igc.next],
                               !.next = @ + 1, !.control = "attempt"]
              ELSE [igc EXCEPT !.next = @ + 1,
                               !.processed_equipment =
                                   Append(@, IgcIterated(igc)[igc.next])]
    /\ UNCHANGED <<program, det, detections, gc, gsm, attempts, stop_in_drain>>

\* `x, y = equipment_info['position']` in _pickup_single_equipment raises
\* ValueError unless the position is a pair; the handler returns False
IgcPickupReachesDriver(equipment_info) == UnpacksToPair(equipment_info.position)

\* _handle_equipment_pickup: _pickup_single_equipment, last_pickup_time,
\* processed_equipment.append, time.sleep(1.5)
IgcControlAttempt ==
    /\ program \in IgcPrograms
    /\ igc.control = "attempt"
    /\ attempts' = [attempts EXCEPT ![igc.equipment_info.timestamp] = @ + 1]
    /\ igc' = [igc EXCEPT !.processed_equipment = Append(@, igc.equipment_info),
                          !.in_cooldown = TRUE,
                          !.equipment_info = NoEquipmentInfo,
                          !.control = "iterate"]
    /\ UNCHANGED <<program, det, detections, gc, gsm, stop_in_drain>>

\* IgcEndPickup without the finally block
IgcEndPickupKeepsFlag(c) ==
    [c EXCEPT !.equipment_queue = RemoveProcessed(@, c.processed_equipment),
              !.same_list = FALSE, !.sorted_equipment = <<>>, !.next = 1,
              !.processed_equipment = <<>>, !.control = "cchk"]

\* _handle_equipment_pickup: the processed records are removed from the
\* queue; finally: is_picking_up = False under control_lock
IgcEndPickup(c) ==
    [c EXCEPT !.equipment_queue = RemoveProcessed(@, c.processed_equipment),
              !.is_picking_up = FALSE,
              !.same_list = FALSE, !.sorted_equipment = <<>>, !.next = 1,
              !.processed_equipment = <<>>, !.control = "cchk"]

\* the removals of lines 355-357 are under no lock, the reset of the flag
\* (lines 363-364) is under control_lock
IgcControlCleanup ==
    /\ program \in IgcPrograms
    /\ igc.control = "cleanup"
    /\ igc' = [IgcEndPickup(igc) EXCEPT
                  !.unlocked_write = @ \/ igc.processed_equipment # <<>>]
    /\ stop_in_drain' = FALSE
    /\ UNCHANGED <<program, det, detections, gc, gsm, attempts>>

\* _combat_move: random_move_count += 1, and at max_random_moves the move
\* to the centre and the reset
IgcCombatMoveCount(n) == IF n + 1 >= MaxRandomMoves THEN 0 ELSE n + 1

\* _combat_move: a random move is issued on every call, and the move to the
\* centre follows it in the same call when the count has reached
\* max_random_moves
IgcCombatMove(c) ==
    [c EXCEPT !.random_move_count = IgcCombatMoveCount(@),
              !.ring_moves = IF c.random_move_count + 1 >= MaxRandomMoves THEN 0 ELSE @ + 1,
              !.return_after = IF c.random_move_count + 1 >= MaxRandomMoves
                               THEN {c.ring_moves + 1} ELSE {}]

\* _control_loop line 233: if not self.is_picking_up
IgcControlCombatCheck ==
    /\ program \in IgcPrograms
    /\ igc.control = "cchk"
    /\ igc' = [igc EXCEPT !.control = IF igc.is_picking_up THEN "while" ELSE "combat"]
    /\ UNCHANGED <<program, det, detections, gc, gsm, attempts, stop_in_drain>>

\* _combat_control: is_fighting = True, then the move and the attack, each
\* run when its interval has elapsed; then time.sleep(0.1)
IgcControlCombat ==
    /\ program \in IgcPrograms
    /\ igc.control = "combat"
    /\ \E move_due \in BOOLEAN :
         igc' = [(IF move_due THEN IgcCombatMove(igc) ELSE igc)
                    EXCEPT !.is_fighting = TRUE, !.control = "while"]
    /\ UNCHANGED <<program, det, detections, gc, gsm, attempts, stop_in_drain>>

\* _equipment_monitor_loop: the while condition, then _detect_equipment up
\* to its match list; no screenshot (a bare return), no template and no
\* match give nothing
IgcMonitorWhile ==
    /\ program \in IgcPrograms
    /\ igc.monitor = "while"
    /\ IF ~(igc.is_running /\ ~igc.should_stop)
       THEN igc' = [igc EXCEPT !.monitor = "done"] /\ UNCHANGED detections
       ELSE \E captured \in BOOLEAN, raw \in RawFrames :
              LET found == IF captured /\ igc.templates THEN DetectTemplates(raw) ELSE <<>> IN
              /\ detections + Len(found) <= MaxDetections
              /\ detections' = detections + Len(found)
              /\ igc' = IF found = <<>> THEN [igc EXCEPT !.screenshot = captured]
                        ELSE [igc EXCEPT !.screenshot = captured, !.monitor = "append",
                                         !.matches = Stamp(found, detections)]
    /\ UNCHANGED <<program, det, gc, gsm, attempts, stop_in_drain>>

\* _detect_equipment: the record made of a match
IgcEquipmentInfo(match) == [position |-> match.position, timestamp |-> match.timestamp]

\* _detect_equipment lines 284-295: what one match does to the queue
IgcIngest(queue, match) == Append(queue, IgcEquipmentInfo(match))

\* the append of line 295 is under no lock
IgcMonitorAppend ==
    /\ program \in IgcPrograms
    /\ igc.monitor = "append"
    /\ igc' = [igc EXCEPT !.equipment_queue = IgcIngest(@, Head(igc.matches)),
                          !.unlocked_write = TRUE,
                          !.matches = Tail(@),
                          !.monitor = IF Len(igc.matches) = 1 THEN "while" ELSE "append"]
    /\ UNCHANGED <<program, det, detections, gc, gsm, attempts, stop_in_drain>>

\* time passes: pickup_cooldown has elapsed since last_pickup_time
IgcCooldownElapses ==
    /\ program \in IgcPrograms
    /\ igc.in_cooldown
    /\ igc' = [igc EXCEPT !.in_cooldown = FALSE]
    /\ UNCHANGED <<program, det, detections, gc, gsm, attempts, stop_in_drain>>

\* time passes: the oldest record still queued becomes older than 5 seconds
IgcRecordAges ==
    /\ program \in IgcPrograms
    /\ \E i \in 1..Len(igc.equipment_queue) :
         /\ igc.equipment_queue[i].timestamp > igc.stale_upto
         /\ \A j \in 1..Len(igc.equipment_queue) :
               igc.equipment_queue[j].timestamp > igc.stale_upto
                  => igc.equipment_queue[i].timestamp <= igc.equipment_queue[j].timestamp
         /\ igc' = [igc EXCEPT !.stale_upto = igc.equipment_queue[i].timestamp]
    /\ UNCHANGED <<program, det, detections, gc, gsm, attempts, stop_in_drain>>

IgcNext ==
    \/ IgcStart \/ IgcMainRegister \/ IgcMainStop
    \/ GsmHandleStopRequest \/ GsmCallback
    \/ IgcControlWhile \/ IgcControlQueueCheck \/ IgcControlBeginPickup
    \/ IgcControlIterate \/ IgcControlAttempt \/ IgcControlCleanup
    \/ IgcControlCombatCheck \/ IgcControlCombat
    \/ IgcMonitorWhile \/ IgcMonitorAppend
    \/ IgcCooldownElapses \/ IgcRecordAges

----------------------------------------------------------------------------
(* The two programs *)

GcNext ==
    \/ GcStart \/ GcStartEquipmentMonitor \/ GcStartFighting \/ GcWaitEnds
    \/ GcKeyboardInterrupt \/ GcStopFlag \/ GcStopRunning
    \/ GcStopDetector \/ GcHotkey
    \/ GcMonitorStartCheck \/ GcMonitorStartGo \/ GcMonitorWhile
    \/ GcMonitorCheckDetector \/ GcMonitorFinally
    \/ GcFightWhile \/ GcFightEquipmentCheck
    \/ GcFightSetPickingUp \/ GcFightDrain \/ GcFightPickup \/ GcFightClear
    \/ GcFightCombat
    \/ \E t \in DetThreadIds : DetLoopStep(t) \/ DetSleep(t) \/ DetDeliver(t) \/ DetPostCheck(t)

Init ==
    /\ program \in {"start_game", "start_v2"}
    /\ det = DetInit
    /\ detections = 0
    /\ gc = GcInit
    /\ igc = IgcInit
    /\ gsm = GsmInit
    /\ attempts = [i \in 1..MaxDetections |-> 0]
    /\ stop_in_drain = FALSE

Next == GcNext \/ IgcNext

Spec == Init /\ [][Next]_vars

\* the detector driven directly by a caller
DetectorInit ==
    /\ program = "detector"
    /\ det = DetInit
    /\ detections = 0
    /\ gc = GcInit
    /\ igc = IgcInit
    /\ gsm = GsmInit
    /\ attempts = [i \in 1..MaxDetections |-> 0]
    /\ stop_in_drain = FALSE

DetectorSpec == DetectorInit /\ [][DetectorNext]_vars

\* detect_equipment_templates called on any frame, and then once more
DetectInit ==
    /\ program = "single_detection"
    /\ \E raw \in Frames : det = [DetInit EXCEPT !.frame = raw]
    /\ detections = 0
    /\ gc = GcInit
    /\ igc = IgcInit
    /\ gsm = GsmInit
    /\ attempts = [i \in 1..MaxDetections |-> 0]
    /\ stop_in_drain = FALSE

DetectNext == DetSingleDetection \/ DetSecondDetection

DetectSpec == DetectInit /\ [][DetectNext]_vars


\* GameController with its threads started and no stop to come: the state
\* start() leaves behind, the detection loop calling the callback for the
\* matches of frame after frame, without end
SteadyInit ==
    /\ program = "steady"
    /\ det = [DetInit EXCEPT !.templates = TRUE, !.is_running = TRUE,
                             !.threads[1].pc = "loop"]
    /\ detections = 0
    /\ gc = [GcInit EXCEPT !.is_running = TRUE, !.is_fighting = TRUE, !.detector = TRUE,
                           !.main = "wait", !.monitor = "while", !.fight = "while"]
    /\ igc = IgcInit
    /\ gsm = GsmInit
    /\ attempts = [i \in 1..MaxDetections |-> 0]
    /\ stop_in_drain = FALSE

\* one round of _detection_loop that found a match: the callback runs its
\* lock block on it; the time of the match is left out, as GameController
\* reads it nowhere
SteadyCallback ==
    /\ program = "steady"
    /\ \E raw \in RawFrames \ {<<>>} :
         gc' = EquipmentDetectedCallback(gc, DetNextMatch([matches |-> Stamp(DetectTemplates(raw), 0)]))
    /\ UNCHANGED <<program, det, detections, igc, gsm, attempts, stop_in_drain>>

SteadyFight ==
    \/ GcFightWhile \/ GcFightEquipmentCheck \/ GcFightSetPickingUp
    \/ GcFightDrain \/ GcFightPickup \/ GcFightClear \/ GcFightCombat

SteadyNext == SteadyCallback \/ SteadyFight

\* both threads are scheduled again and again
SteadySpec ==
    /\ SteadyInit /\ [][SteadyNext]_vars
    /\ WF_vars(SteadyCallback) /\ WF_vars(SteadyFight)

\* one IntelligentGameController whose start and stop a caller calls
ClientInit ==
    /\ program = "v2_client"
    /\ det = DetInit
    /\ detections = 0
    /\ gc = GcInit
    /\ igc = IgcInit
    /\ gsm = GsmInit
    /\ attempts = [i \in 1..MaxDetections |-> 0]
    /\ stop_in_drain = FALSE

ClientNext ==
    \/ IgcClientStart \/ IgcClientStop \/ IgcClientJoinControl \/ IgcClientJoinMonitor
    \/ IgcSwitchControl
    \/ IgcControlWhile \/ IgcControlQueueCheck \/ IgcControlBeginPickup
    \/ IgcControlIterate \/ IgcControlAttempt \/ IgcControlCleanup
    \/ IgcControlCombatCheck \/ IgcControlCombat
    \/ IgcMonitorWhile \/ IgcMonitorAppend
    \/ IgcCooldownElapses \/ IgcRecordAges

ClientSpec == ClientInit /\ [][ClientNext]_vars

\* one step of MouseKeyboardController
ControllerStep(new) ==
    /\ program = "move_character"
    /\ gc' = [gc EXCEPT !.controller = new]
    /\ UNCHANGED <<program, det, detections, igc, gsm, attempts, stop_in_drain>>

\* pyautogui's failSafeCheck, which runs before every pyautogui call
FailSafe(k) == k.corner

\* move_character is called
MoveCall ==
    /\ gc.controller.pc \in {"idle", "returned"}
    /\ gc.controller.calls < MaxMoveCalls
    /\ ControllerStep([gc.controller EXCEPT !.pc = "key_down", !.calls = @ + 1])

\* move_character: pyautogui.keyDown('ctrl')
MoveKeyDown ==
    /\ gc.controller.pc = "key_down"
    /\ ControllerStep(IF FailSafe(gc.controller)
                      THEN [gc.controller EXCEPT !.pc = "except"]
                      ELSE [gc.controller EXCEPT !.ctrl = TRUE, !.pc = "move_to"])

\* move_character: pyautogui.moveTo(x, y)
MoveMoveTo ==
    /\ gc.controller.pc = "move_to"
    /\ ControllerStep(IF FailSafe(gc.controller)
                      THEN [gc.controller EXCEPT !.pc = "except"]
                      ELSE [gc.controller EXCEPT !.pc = "mouse_down"])

\* move_character: pyautogui.mouseDown(x, y, button='left')
MoveMouseDown ==
    /\ gc.controller.pc = "mouse_down"
    /\ ControllerStep(IF FailSafe(gc.controller)
                      THEN [gc.controller EXCEPT !.pc = "except"]
                      ELSE [gc.controller EXCEPT !.left = TRUE, !.pc = "mouse_up"])

\* move_character: time.sleep(duration), then pyautogui.mouseUp(x, y, button='left')
MoveMouseUp ==
    /\ gc.controller.pc = "mouse_up"
    /\ ControllerStep(IF FailSafe(gc.controller)
                      THEN [gc.controller EXCEPT !.pc = "except"]
                      ELSE [gc.controller EXCEPT !.left = FALSE, !.pc = "key_up"])

\* move_character: pyautogui.keyUp('ctrl'), then ClickResult(success=True)
MoveKeyUp ==
    /\ gc.controller.pc = "key_up"
    /\ ControllerStep(IF FailSafe(gc.controller)
                      THEN [gc.controller EXCEPT !.pc = "except"]
                      ELSE [gc.controller EXCEPT !.ctrl = FALSE, !.pc = "returned",
                                                 !.success = TRUE])

\* move_character: the handler: try: keyUp('ctrl'); mouseUp(button='left')
\* except: pass, then ClickResult(success=False). A call that raises ends the
\* inner try, and what it and the call after it were to release stays held
MoveExceptRelease(k) ==
    IF FailSafe(k)
    THEN [k EXCEPT !.pc = "returned", !.success = FALSE]
    ELSE [k EXCEPT !.ctrl = FALSE, !.pc = "except_mouse_up"]

MoveExcept ==
    /\ gc.controller.pc = "except"
    /\ ControllerStep(MoveExceptRelease(gc.controller))

\* move_character: the handler's pyautogui.mouseUp(button='left')
MoveExceptMouseUp ==
    /\ gc.controller.pc = "except_mouse_up"
    /\ ControllerStep(IF FailSafe(gc.controller)
                      THEN [gc.controller EXCEPT !.pc = "returned", !.success = FALSE]
                      ELSE [gc.controller EXCEPT !.left = FALSE, !.pc = "returned",
                                                 !.success = FALSE])

\* the user moves the mouse into the fail-safe corner or out of it
UserMovesMouse ==
    /\ ControllerStep([gc.controller EXCEPT !.corner = ~@])

\* a MouseKeyboardController whose move_character is called again and again
MoveInit ==
    /\ program = "move_character"
    /\ det = DetInit
    /\ detections = 0
    /\ gc = GcInit
    /\ igc = IgcInit
    /\ gsm = GsmInit
    /\ attempts = [i \in 1..MaxDetections |-> 0]
    /\ stop_in_drain = FALSE

MoveNext ==
    \/ MoveCall
    \/ MoveKeyDown
    \/ MoveMoveTo
    \/ MoveMouseDown
    \/ MoveMouseUp
    \/ MoveKeyUp
    \/ MoveExcept
    \/ MoveExceptMouseUp
    \/ UserMovesMouse

MoveSpec == MoveInit /\ [][MoveNext]_vars

\* one step of an input call
InputStep(new) ==
    /\ program = "input"
    /\ igc' = [igc EXCEPT !.input = new]
    /\ UNCHANGED <<program, det, detections, gc, gsm, attempts, stop_in_drain>>

\* _move_to_position: enhanced_inject_move_character, where
\* _validate_window_and_coordinates may return False, which sends
\* _move_to_position to send_input_to_window(..., 'move_and_drag')
MoveToPosition(c) ==
    /\ igc.input.pc[c] = "idle"
    /\ \E valid \in BOOLEAN :
          InputStep([igc.input EXCEPT
              !.pc[c] = IF valid THEN "save" ELSE "direct",
              !.action[c] = IF valid THEN "none" ELSE "move_and_drag"])

\* _pickup_click_sequence: send_input_to_window(..., 'click') when the
\* injection schemes before send_input_to_window_direct_mouse have failed
PickupClickFallback(c) ==
    /\ igc.input.pc[c] = "idle"
    /\ InputStep([igc.input EXCEPT !.pc[c] = "direct", !.action[c] = "click"])

\* inject_game_move_character: current_pos = win32gui.GetCursorPos()
InjectSaveCursor(c) ==
    /\ igc.input.pc[c] = "save"
    /\ InputStep([igc.input EXCEPT !.saved[c] = igc.input.cursor, !.pc[c] = "set_cursor"])

\* inject_game_move_character: win32api.SetCursorPos((screen_x, screen_y)),
\* which raises when the system refuses the call
InjectSetCursor(c) ==
    /\ igc.input.pc[c] = "set_cursor"
    /\ \E raised \in BOOLEAN :
          InputStep(IF raised
                    THEN [igc.input EXCEPT !.pc[c] = "release"]
                    ELSE [igc.input EXCEPT !.cursor = c, !.pc[c] = "ctrl_down"])

\* inject_game_move_character: keybd_event(VK_CONTROL, 0, 0, 0)
InjectCtrlDown(c) ==
    /\ igc.input.pc[c] = "ctrl_down"
    /\ InputStep([igc.input EXCEPT !.ctrl = TRUE, !.pc[c] = "left_down"])

\* inject_game_move_character: mouse_event(MOUSEEVENTF_LEFTDOWN, ...)
InjectLeftDown(c) ==
    /\ igc.input.pc[c] = "left_down"
    /\ InputStep([igc.input EXCEPT !.left = TRUE, !.pc[c] = "hold"])

\* inject_game_move_character: time.sleep(duration), then
\* mouse_event(MOUSEEVENTF_LEFTUP, ...)
InjectLeftUp(c) ==
    /\ igc.input.pc[c] = "hold"
    /\ InputStep([igc.input EXCEPT !.left = FALSE, !.pc[c] = "ctrl_up"])

\* inject_game_move_character: keybd_event(VK_CONTROL, 0, KEYEVENTF_KEYUP, 0)
InjectCtrlUp(c) ==
    /\ igc.input.pc[c] = "ctrl_up"
    /\ InputStep([igc.input EXCEPT !.ctrl = FALSE, !.pc[c] = "restore"])

\* inject_game_move_character: win32api.SetCursorPos(current_pos); return True
InjectRestoreCursor(c) ==
    /\ igc.input.pc[c] = "restore"
    /\ \E raised \in BOOLEAN :
          InputStep(IF raised
                    THEN [igc.input EXCEPT !.pc[c] = "release"]
                    ELSE [igc.input EXCEPT !.cursor = igc.input.saved[c], !.pc[c] = "idle"])

\* inject_game_move_character: the except branch releases Ctrl and the left
\* button and returns False, and _move_to_position takes its second way
InjectRelease(c) ==
    /\ igc.input.pc[c] = "release"
    /\ InputStep([igc.input EXCEPT !.ctrl = FALSE, !.left = FALSE,
                                   !.pc[c] = "direct", !.action[c] = "move_and_drag"])

\* send_input_to_window_direct_mouse: with _global_input_lock
DirectMouseAcquire(c) ==
    /\ igc.input.pc[c] = "direct"
    /\ igc.input.lock = 0
    /\ InputStep([igc.input EXCEPT !.lock = c, !.pc[c] = "locked"])

\* send_input_to_window_direct_mouse: pyautogui.click(abs_x, abs_y) for
\* 'click'; no branch takes 'move_and_drag'
DirectMouseAct(c) ==
    /\ igc.input.pc[c] = "locked"
    /\ InputStep(IF igc.input.action[c] = "click"
                 THEN [igc.input EXCEPT !.cursor = c, !.left = FALSE, !.pc[c] = "unlock"]
                 ELSE [igc.input EXCEPT !.pc[c] = "unlock"])

\* send_input_to_window_direct_mouse: the with block is left
DirectMouseRelease(c) ==
    /\ igc.input.pc[c] = "unlock"
    /\ InputStep([igc.input EXCEPT !.lock = 0, !.pc[c] = "idle", !.action[c] = "none"])

\* the controllers of start_v2, each in its control thread, sending input
InputInit ==
    /\ program = "input"
    /\ det = DetInit
    /\ detections = 0
    /\ gc = GcInit
    /\ igc = IgcInit
    /\ gsm = GsmInit
    /\ attempts = [i \in 1..MaxDetections |-> 0]
    /\ stop_in_drain = FALSE

InputNext ==
    \E c \in Controllers :
        \/ MoveToPosition(c)
        \/ PickupClickFallback(c)
        \/ InjectSaveCursor(c)
        \/ InjectSetCursor(c)
        \/ InjectCtrlDown(c)
        \/ InjectLeftDown(c)
        \/ InjectLeftUp(c)
        \/ InjectCtrlUp(c)
        \/ InjectRestoreCursor(c)
        \/ InjectRelease(c)
        \/ DirectMouseAcquire(c)
        \/ DirectMouseAct(c)
        \/ DirectMouseRelease(c)

InputSpec == InputInit /\ [][InputNext]_vars

\* a GlobalStopManager with the callbacks that are registered with it and
\* the stop requests that reach it
StopManagerInit ==
    /\ program = "stop_manager"
    /\ det = DetInit
    /\ detections = 0
    /\ gc = GcInit
    /\ igc = IgcInit
    /\ gsm = [GsmInit EXCEPT !.stop_callbacks = 0]
    /\ attempts = [i \in 1..MaxDetections |-> 0]
    /\ stop_in_drain = FALSE

StopManagerNext ==
    \/ GsmRegisterStopCallback
    \/ GsmDelayedExit
    \/ \E r \in GsmRequesters : GsmRequestTest(r) \/ GsmRequestSet(r) \/ GsmRequestCallback(r)

StopManagerSpec == StopManagerInit /\ [][StopManagerNext]_vars

\* every thread is scheduled again and again, and time passes; the hotkey,
\* Ctrl+C and Ctrl+Q are up to the user
FairSpec ==
    /\ Spec
    /\ WF_vars(GcStart \/ GcStartEquipmentMonitor \/ GcStartFighting \/ GcWaitEnds
               \/ GcStopFlag \/ GcStopRunning \/ GcStopDetector)
    /\ WF_vars(GcMonitorStartCheck \/ GcMonitorStartGo \/ GcMonitorWhile
               \/ GcMonitorCheckDetector \/ GcMonitorFinally)
    /\ WF_vars(GcFightWhile \/ GcFightEquipmentCheck \/ GcFightSetPickingUp
               \/ GcFightDrain \/ GcFightPickup \/ GcFightClear \/ GcFightCombat)
    /\ \A t \in DetThreadIds : WF_vars(DetLoopStep(t) \/ DetSleep(t) \/ DetDeliver(t) \/ DetPostCheck(t))
    /\ WF_vars(IgcStart \/ IgcMainRegister \/ IgcMainStop)
    /\ WF_vars(GsmCallback)
    /\ WF_vars(IgcControlWhile \/ IgcControlQueueCheck \/ IgcControlBeginPickup
               \/ IgcControlIterate \/ IgcControlAttempt \/ IgcControlCleanup
               \/ IgcControlCombatCheck \/ IgcControlCombat)
    /\ WF_vars(IgcMonitorWhile \/ IgcMonitorAppend)

----------------------------------------------------------------------------
(* The claims *)

\* squared distance between two points
Apart2(p, q) == (p[1] - q[1]) * (p[1] - q[1]) + (p[2] - q[2]) * (p[2] - q[2])

\* squared distance of a point to the anchor, the screen centre
Anchor2(p) == Apart2(p, <<screen_center_x, screen_center_y>>)

\* C1: in both controllers, while is_picking_up is set the controller thread
\* is not at the step that issues the combat move and the combat attack,
\* whatever the detection thread and the stop requests do
CombatNeverDuringPickup ==
    /\ gc.is_picking_up => gc.fight # "combat"
    /\ igc.is_picking_up => igc.control # "combat"

\* C1 witness: a pickup attempt in progress in GameController, the stop
\* already requested and a detection thread about to deliver a match
PickupDuringStopAndDelivery ==
    /\ gc.is_picking_up /\ gc.fight = "pickup" /\ gc.should_stop
    /\ \E t \in DetThreadIds : det.threads[t].pc = "deliver"

\* C2: no record accepted into a queue is handed to a pickup attempt more
\* than once, in either controller
NoDoublePickup == \A id \in DOMAIN attempts : attempts[id] <= 1

\* C2 witness: IntelligentGameController has attempted every record once,
\* the last of them ingested while the pass that attempted it was running
EveryRecordAttemptedOnce ==
    /\ program = "start_v2"
    /\ \A id \in DOMAIN attempts : attempts[id] = 1
    /\ igc.control = "iterate" /\ Len(igc.processed_equipment) = MaxDetections

\* C3: GameController.equipment_queue never holds two entries whose centres
\* are closer than the dedup radius of 30 px (closer in the sense of
\* _is_same_equipment: at exactly 30 px two entries are different targets)
GcQueueCentresApart ==
    \A i, j \in 1..Len(gc.equipment_queue) :
        i < j => Apart2(gc.equipment_queue[i].position, gc.equipment_queue[j].position)
                    >= same_equipment_threshold * same_equipment_threshold

\* C3 witness: every detection was delivered, nothing was dequeued, and the
\* queue holds one entry fewer: one detection was within the radius of
\* another and was discarded
DuplicateWasDiscarded ==
    /\ program = "start_game"
    /\ detections = MaxDetections /\ det.result_queue = MaxDetections
    /\ Len(gc.equipment_queue) = MaxDetections - 1
    /\ gc.current_equipment = NoEquipment

\* C4: IntelligentGameController.equipment_queue never holds two entries
\* whose centres are within the dedup radius: the second detection of a
\* pair within the radius is discarded, so the pair leaves depth 1
IgcQueueCentresApart ==
    \A i, j \in 1..Len(igc.equipment_queue) :
        i < j => Apart2(CenterOf(igc.equipment_queue[i].position),
                        CenterOf(igc.equipment_queue[j].position))
                    >= same_equipment_threshold * same_equipment_threshold

\* GameController.equipment_queue is in ascending order of distance
GcQueueSorted ==
    \A i, j \in 1..Len(gc.equipment_queue) :
        i < j => Anchor2(gc.equipment_queue[i].position)
                    <= Anchor2(gc.equipment_queue[j].position)

\* the step of the drain that dequeues takes an entry no farther than any
\* entry in the queue at that moment
GcDequeuesNearest ==
    (gc.fight = "drain" /\ gc'.fight = "pickup") =>
        /\ gc'.current_equipment \in Range(gc.equipment_queue)
        /\ \A e \in Range(gc.equipment_queue) :
              Anchor2(gc'.current_equipment.position) <= Anchor2(e.position)

\* C5: GameController.equipment_queue is sorted by ascending distance in
\* every state, and every dequeue takes an entry of minimal distance among
\* those present, also when entries arrive during the drain
GcQueueNearestFirst == []GcQueueSorted /\ [][GcDequeuesNearest]_vars

\* C5 witness: during an attempt the head of the queue is a record that is
\* nearer than the one being attempted, so it arrived after the dequeue
NearerTargetArrivedDuringDrain ==
    /\ gc.fight = "pickup" /\ gc.equipment_queue # <<>>
    /\ Anchor2(Head(gc.equipment_queue).position) < Anchor2(gc.current_equipment.position)

\* the records of IntelligentGameController's queue that the running pass
\* has not handled yet
IgcWaiting ==
    {e \in Range(igc.equipment_queue) :
        \A i \in 1..Len(igc.processed_equipment) : igc.processed_equipment[i] # e}

\* C6: every attempt of a drain pass of IntelligentGameController takes a
\* record that is no farther from the anchor than any record still waiting,
\* so records that wait together are attempted in non-decreasing distance
IgcDrainNearestFirst ==
    [][(igc.control = "iterate" /\ igc'.control = "attempt") =>
          \A e \in IgcWaiting :
              Anchor2(CenterOf(igc'.equipment_info.position))
                 <= Anchor2(CenterOf(e.position))]_vars

\* C7: when the fighting loop of GameController makes its check with a
\* non-empty queue, not picking up and no stop requested, the check starts
\* the pickup; no accepted target waits beyond the next check
GcNonEmptyQueueStartsPickup ==
    (/\ gc.fight = "eqchk"
     /\ gc.equipment_queue # <<>>
     /\ ~gc.is_picking_up
     /\ ~gc.should_stop)
    => GcShouldPickup(gc)

\* C8: the step that clears is_picking_up finds, or in
\* IntelligentGameController leaves, the queue empty
PickupEndsOnEmptyQueue ==
    [][/\ (gc.is_picking_up /\ ~gc'.is_picking_up) => gc.equipment_queue = <<>>
       /\ (igc.is_picking_up /\ ~igc'.is_picking_up) => igc'.equipment_queue = <<>>]_vars

\* a stop has been requested of either controller
StopRequested == gc.should_stop \/ igc.should_stop \/ gsm.stop_requested

\* no detection thread, monitor thread or controller thread is left
AllThreadsExited ==
    /\ \A t \in DetThreadIds : det.threads[t].pc \in {"none", "done"}
    /\ gc.monitor \in {"none", "done"} /\ gc.fight \in {"none", "done"}
    /\ igc.monitor \in {"none", "done"} /\ igc.control \in {"none", "done"}

\* C9: after a stop request every detection, monitor and controller thread
\* eventually exits, and the controller is then stopped for good
StopReachesStopped ==
    StopRequested ~> [](AllThreadsExited /\ ~gc.is_running /\ ~igc.is_running)

\* C10: once a stop has been requested during a drain pass, the drain
\* starts no further pickup attempt: an attempt in progress is one that was
\* already in progress
NoNewAttemptAfterStop ==
    [][/\ (stop_in_drain /\ gc.should_stop /\ gc'.fight = "pickup") => gc.fight = "pickup"
       /\ (stop_in_drain /\ igc.should_stop /\ igc'.control = "attempt")
             => igc.control = "attempt"]_vars

DetLive(t) == det.threads[t].pc \in {"loop", "sleep", "deliver", "post"}

\* C11: a stop operation reports the system as stopped only when every
\* thread it waited for has exited: GameController.stop has printed its last
\* line only with the monitor, fight and detection threads gone,
\* IntelligentGameController.stop has returned only with the control and
\* monitor threads gone, and stop_realtime_detection has printed that
\* detection stopped only with no detection thread left
StopReportMeansExited ==
    /\ gc.main = "stopped" =>
          /\ gc.monitor \in {"none", "done"} /\ gc.fight \in {"none", "done"}
          /\ \A t \in DetThreadIds : ~DetLive(t)
    /\ igc.main = "exit" =>
          igc.monitor \in {"none", "done"} /\ igc.control \in {"none", "done"}
    /\ det.report = "stopped" => \A t \in DetThreadIds : ~DetLive(t)

\* C12: a callback that raises ends neither the iteration nor the loop, and
\* leaves is_running as it was: in the step in which _detection_loop catches
\* the exception of a callback, the thread stays inside its iteration and
\* is_running keeps its value
RaisingCallbackKeepsLoop ==
    [][\A t \in DetThreadIds :
         (/\ det.threads[t].pc = "deliver"
          /\ det'.threads[t] # det.threads[t]
          /\ det'.raised > det.raised)
            => /\ det'.is_running = det.is_running
               /\ det'.threads[t].pc \in {"deliver", "post"}]_vars

\* the callback raised for every match, no stop was called, and the loop
\* thread is at its loop test with is_running set
RaisedEveryTimeStillLooping ==
    /\ program = "detector"
    /\ det.calls = <<"start">> /\ det.report = "started"
    /\ det.raised = MaxDetections /\ det.result_queue = MaxDetections
    /\ det.is_running
    /\ \E t \in DetThreadIds : det.threads[t].pc = "loop"

\* C13: once stop_realtime_detection has cleared is_running, the flag stays
\* False until the next start: is_running goes from False to True only in a
\* step of start_realtime_detection, the step that starts a new loop thread
StoppedStaysStopped ==
    [][(~det.is_running /\ det'.is_running)
          => \E t \in DetThreadIds :
                det.threads[t].pc = "none" /\ det'.threads[t].pc = "loop"]_vars

\* C14: start_realtime_detection on a running detector starts no thread,
\* leaves is_running True and prints that detection is already running;
\* stop_realtime_detection on a detector that is not running changes neither
\* the flag nor the threads
StartStopIdempotent ==
    [][/\ (det'.calls = Append(det.calls, "start") /\ det.templates /\ det.is_running)
             => /\ det'.threads = det.threads
                /\ det'.is_running
                /\ det'.report = "already_running"
       /\ (det'.calls = Append(det.calls, "stop") /\ ~det.is_running)
             => /\ det'.threads = det.threads
                /\ ~det'.is_running
                /\ det'.templates = det.templates]_vars

\* stop was called on the detector before any start, then start twice: the
\* second start found the detector running and there is one loop thread
StoppedIdleThenStartedTwice ==
    /\ program = "detector"
    /\ det.calls = <<"stop", "start", "start">>
    /\ det.templates /\ det.is_running /\ det.report = "already_running"
    /\ Cardinality({t \in DetThreadIds : det.threads[t].pc # "none"}) = 1

\* C15: at most one _detection_loop thread of the detector is live at any
\* time, whatever the order of starts, stops and automatic restarts
AtMostOneLiveLoop == Cardinality({t \in DetThreadIds : DetLive(t)}) <= 1

\* C16: with no template loaded start_realtime_detection starts nothing
\* (is_running stays False, no thread is created), and what it returns to its
\* caller differs from what a successful start returns
StartRefusalToldToCaller ==
    (program = "detector" /\ det.report = "no_templates")
       => /\ ~det.is_running
          /\ \A t \in DetThreadIds : det.threads[t].pc = "none"
          /\ det.returned # DetSpawn(det).returned

\* C17: a controller is in combat (about to issue a move or an attack) only
\* when its start loaded at least one template, in both variants
CombatOnlyWithTemplates ==
    /\ gc.fight = "combat" => det.templates
    /\ igc.control = "combat" => igc.templates

\* the overlap ratio of two boxes is at least one half
OverlapAtLeastHalf(box1, box2) ==
    LET o == CalcOverlap(box1, box2) IN o[2] > 0 /\ 2 * o[1] >= o[2]

\* C18: no two detections that _remove_overlapping_matches returns overlap
\* with a ratio of 0.5 or more
NoTwoKeptOverlapHalf ==
    (program = "single_detection" /\ det.client = "done") =>
       \A i, j \in 1..Len(det.filtered_matches) :
          i < j => ~OverlapAtLeastHalf(det.filtered_matches[i].position,
                                      det.filtered_matches[j].position)

\* C19: of two candidates that overlap with a ratio above 0.5 exactly one
\* survives, one of highest confidence; two candidates that do not meet both
\* survive; and a candidate is missing from the result only when a kept
\* candidate of greater or equal confidence overlaps it above the threshold
SuppressionKeepsStronger ==
    (program = "single_detection" /\ det.client = "done") =>
       LET raw == det.all_matches
           out == det.filtered_matches
       IN /\ Range(out) \subseteq Range(raw)
          /\ (Len(raw) = 2 /\ OverlapsAbove(raw[1].position, raw[2].position))
                => /\ Len(out) = 1
                   /\ out[1].confidence >= raw[1].confidence
                   /\ out[1].confidence >= raw[2].confidence
          /\ (Len(raw) = 2 /\ CalcOverlap(raw[1].position, raw[2].position)[1] = 0)
                => Len(out) = 2 /\ Range(out) = Range(raw)
          /\ \A i \in 1..Len(raw) :
                raw[i] \notin Range(out)
                   => \E k \in 1..Len(out) :
                         /\ out[k].confidence >= raw[i].confidence
                         /\ OverlapsAbove(out[k].position, raw[i].position)

\* two candidates with overlap ratio 3/4, the weaker one first in the frame:
\* the stronger one alone was returned
WeakerFirstStrongerSurvived ==
    /\ program = "single_detection" /\ det.client = "done"
    /\ Len(det.all_matches) = 2
    /\ det.all_matches[1].position = BoxWide /\ det.all_matches[2].position = BoxMost
    /\ det.all_matches[1].confidence < det.all_matches[2].confidence
    /\ det.filtered_matches = <<det.all_matches[2]>>

\* C20: suppression runs once over the candidates of all templates: two
\* returned detections of different templates never overlap above the
\* threshold
OneSuppressionAcrossTemplates ==
    (program = "single_detection" /\ det.client = "done") =>
       \A i, j \in 1..Len(det.filtered_matches) :
          (i < j /\ det.filtered_matches[i].equipment_name # det.filtered_matches[j].equipment_name)
             => ~OverlapsAbove(det.filtered_matches[i].position,
                               det.filtered_matches[j].position)

\* two templates matched the same box, and one detection was returned
SameRegionTwoTemplates ==
    /\ program = "single_detection" /\ det.client = "done"
    /\ Len(det.all_matches) = 2
    /\ det.all_matches[1].equipment_name # det.all_matches[2].equipment_name
    /\ det.all_matches[1].position = det.all_matches[2].position
    /\ Len(det.filtered_matches) = 1

\* C21: two calls of detect_equipment_templates on the same frame, with the
\* same templates and threshold, return identical lists: the same records
\* in the same order
RepeatedDetectionIdentical ==
    (program = "single_detection" /\ det.client = "twice")
       => det.filtered_again = det.filtered_matches

\* C22: an iteration whose capture fails delivers nothing: the detection
\* step ends in the empty list, no callback runs, nothing is put into
\* result_queue, is_running keeps its value and the thread goes through its
\* sleep to the next loop test; in the second controller a missing
\* screenshot appends nothing and leaves the monitor loop running
CaptureFailureIsQuiet ==
    [][/\ \A t \in DetThreadIds :
            /\ (det.threads[t].pc = "loop" /\ ~det'.threads[t].captured)
                  => /\ det'.threads[t].pc = "sleep"
                     /\ det'.threads[t].matches = <<>>
                     /\ det'.result_queue = det.result_queue
                     /\ det'.is_running = det.is_running
                     /\ detections' = detections
                     /\ gc' = gc
            /\ (det.threads[t].pc = "sleep" /\ det'.threads[t].pc # "sleep")
                  => det'.threads[t].pc = "loop"
       /\ (igc.monitor = "while" /\ igc.screenshot /\ ~igc'.screenshot)
             => /\ igc'.equipment_queue = igc.equipment_queue
                /\ igc'.matches = <<>>
                /\ igc'.monitor = "while"
                /\ igc'.is_running = igc.is_running]_vars

\* the capture of the iteration in progress failed, after an iteration that
\* delivered a match: the thread sleeps, the detector still runs
CaptureFailedAfterDelivery ==
    /\ program = "start_game"
    /\ det.is_running /\ det.result_queue = 1
    /\ \E t \in DetThreadIds : det.threads[t].pc = "sleep" /\ ~det.threads[t].captured

\* C23: a pickup whose action fails is not fatal: the target is consumed,
\* no target is attempted twice, the pass goes on to the next target, and
\* the pass ends as always, with the picking-up flag cleared and the
\* controller thread back in its loop
FailedPickupIsNotFatal ==
    /\ [](\A id \in DOMAIN attempts : attempts[id] <= 1)
    /\ [][/\ (gc.fight = "pickup" /\ attempts' # attempts)
               => /\ gc'.fight = "drain"
                  /\ \A i \in 1..Len(gc'.equipment_queue) :
                        gc'.equipment_queue[i].timestamp # gc.current_equipment.timestamp
                  /\ gc'.is_fighting = gc.is_fighting /\ gc'.is_running = gc.is_running
          /\ (gc.fight = "clear" /\ gc'.fight # "clear")
               => gc'.fight = "while" /\ ~gc'.is_picking_up
          /\ (igc.control = "attempt" /\ attempts' # attempts)
               => /\ igc'.control = "iterate"
                  /\ igc.equipment_info \in Range(igc'.processed_equipment)
                  /\ igc'.is_running = igc.is_running
          /\ (igc.control = "cleanup" /\ igc'.control # "cleanup")
               => /\ igc'.control = "cchk" /\ ~igc'.is_picking_up
                  /\ \A i \in 1..Len(igc'.equipment_queue) :
                        igc'.equipment_queue[i] \notin Range(igc.processed_equipment)]_vars

\* the pickup call of GameController never reaches the driver, so each of
\* the attempts made has failed: every target was attempted, the queue is
\* empty and the fight thread is about to move or attack
AllPickupsFailedBackInCombat ==
    /\ program = "start_game"
    /\ ~GcPickupReachesDriver
    /\ \A id \in DOMAIN attempts : attempts[id] = 1
    /\ gc.equipment_queue = <<>> /\ ~gc.is_picking_up
    /\ gc.fight = "combat"

\* C24: a controller that is picking up has released the held keys and
\* buttons for this pass: the release comes before the picking-up flag is
\* set, in both variants
ReleasedBeforePickingUp ==
    /\ gc.is_picking_up => gc.released
    /\ igc.is_picking_up => igc.released

\* C25: in a drain pass no pickup is attempted for a target older than the
\* staleness threshold, and a target within the threshold is attempted, in
\* both variants
StaleTargetsSkipped ==
    [][/\ (gc.fight = "pickup" /\ gc'.fight # "pickup")
             => (attempts' # attempts <=> ~gc.current_aged)
       /\ (igc.control = "iterate" /\ igc'.next > igc.next)
             => (igc'.control = "attempt"
                    <=> IgcIterated(igc)[igc.next].timestamp > igc.stale_upto)]_vars

\* C26: the pending-target queue and the picking-up flag are written only
\* by a thread that holds the controller's lock, in both variants
NoWriteOutsideLock == ~gc.unlocked_write /\ ~igc.unlocked_write



ResultCapacity == MaxDetections - 1

ResultBufferBounded == det.result_queue <= ResultCapacity


\* the timestamps of the matches that loop t still has to deliver
PendingOf(t) == {det.threads[t].matches[i].timestamp : i \in 1..Len(det.threads[t].matches)}

\* C29: the callback is called once per detection, in the order of the match
\* list within an iteration and iteration after iteration on the loop that
\* made the detections, and a callback that raises takes no later detection
\* of its iteration away: every detection made is delivered or waits in its
\* loop, none is delivered twice, and the deliveries of a loop are in the
\* order its matches were made
CallbacksInOrderOncePerDetection ==
    LET log == det.delivered IN
    /\ \A i, j \in 1..Len(log) : i < j => log[i][2] # log[j][2]
    /\ \A i, j \in 1..Len(log) : i < j /\ log[i][1] = log[j][1] => log[i][2] < log[j][2]
    /\ {log[i][2] : i \in 1..Len(log)} \cup UNION {PendingOf(t) : t \in DetThreadIds}
           = 1..detections
    /\ \A t \in DetThreadIds : \A s \in PendingOf(t) : \A i \in 1..Len(log) :
           log[i][1] = t => log[i][2] < s

\* one iteration found two matches, the callback raised for the first, and
\* both were delivered in the order of the list
RaisedOnFirstOfTwoBothDelivered ==
    /\ det.delivered = <<<<1, 1>>, <<1, 2>>>>
    /\ det.raised = 1 /\ det.threads[1].pc = "post"


\* C30: in both controllers a move back to the centre comes after exactly
\* max_random_moves random moves since the one before it, it leaves
\* random_move_count at 0, and random_move_count is never outside
\* 0..max_random_moves
RandomMovesBetweenReturns ==
    /\ \A n \in gc.return_after \cup igc.return_after : n = MaxRandomMoves
    /\ gc.return_after # {} => gc.random_move_count = 0
    /\ igc.return_after # {} => igc.random_move_count = 0
    /\ gc.random_move_count \in 0..MaxRandomMoves
    /\ igc.random_move_count \in 0..MaxRandomMoves

\* GameController has just moved back to the centre, after its random moves
ReturnedToCentre ==
    /\ program = "start_game"
    /\ gc.return_after = {MaxRandomMoves}
    /\ gc.ring_moves = 0 /\ gc.fight = "while"



\* C31: with no stop requested, a pass of _process_equipment_queue that
\* GameController has begun ends and the fight loop is back in combat,
\* whatever the callback takes in meanwhile
DrainPassEnds == gc.is_picking_up ~> ~gc.is_picking_up



\* the control threads of the controller that are alive
IgcControlThreadsAlive ==
    {th \in {"latest", "earlier"} :
        IgcAlive(IF th = "latest" THEN igc.control ELSE igc.control_earlier.control)}

\* C32: whatever calls of start and stop a caller makes, at most one
\* control thread of the controller is alive, and at most one monitor
\* thread (of which the controller has one at a time here, as stop() waits
\* for it to exit)
AtMostOneControlAndMonitor ==
    /\ Cardinality(IgcControlThreadsAlive) <= 1
    /\ igc.monitor \in {"none", "while", "append", "done"}



\* C33: once the control loop of IntelligentGameController has exited,
\* is_running comes to be False and the monitor loop exits too, so that
\* nothing feeds the queue any more and a supervisor that polls is_running
\* sees the controller stopped
ControlExitStopsController ==
    (program = "start_v2" /\ igc.control = "done")
        ~> (~igc.is_running /\ igc.monitor = "done")


\* C34: is_picking_up is set only while the controller thread is inside a
\* drain pass, and the step that ends a pass leaves it cleared, in both
\* controllers
FlagSetOnlyInsidePass ==
    [][/\ gc'.is_picking_up => gc'.fight \in {"drain", "pickup", "clear"}
       /\ igc'.is_picking_up => igc'.control \in {"iterate", "attempt", "cleanup"}
       /\ (gc.fight = "clear" /\ gc'.fight # "clear") => ~gc'.is_picking_up
       /\ (igc.control = "cleanup" /\ igc'.control # "cleanup") => ~igc'.is_picking_up]_vars

\* IntelligentGameController is back in its loop after a pass in which an
\* attempt was made, with the flag cleared
BackInLoopAfterPass ==
    /\ program = "start_v2"
    /\ igc.control = "cchk" /\ ~igc.is_picking_up
    /\ igc.in_cooldown /\ \E id \in DOMAIN attempts : attempts[id] = 1
    /\ igc.equipment_queue = <<>>


\* C35: GlobalStopManager calls each registered stop callback at most once
\* in all, however many stop requests arrive and however they interleave,
\* and stop_requested never goes back to False
EachCallbackAtMostOnce ==
    /\ [](\A i, j \in 1..Len(gsm.invoked) : i < j => gsm.invoked[i][2] # gsm.invoked[j][2])
    /\ [][gsm.stop_requested => gsm'.stop_requested]_vars


\* the places in stop_callbacks of the callbacks requester r has called, in
\* the order of the calls
InvokedBy(r) ==
    LET calls == SelectSeq(gsm.invoked, LAMBDA c : c[1] = r)
    IN  [i \in 1..Len(calls) |-> calls[i][2]]

\* C36: a stop request that is handled calls the callbacks in the order of
\* their registration, reaches every callback registered before the request,
\* and goes on to the next callback when one raises
EveryCallbackInvokedInOrder ==
    \A r \in GsmRequesters :
        /\ gsm.requests[r].pc = "callbacks" =>
              InvokedBy(r) = [i \in 1..(gsm.requests[r].next - 1) |-> i]
        /\ gsm.requests[r].pc = "done" =>
              /\ Len(InvokedBy(r)) >= gsm.requests[r].before
              /\ InvokedBy(r) = [i \in 1..Len(InvokedBy(r)) |-> i]

\* a request is through, one of its callbacks raised and it called a later one
CallbackRaisedAndNextInvoked ==
    \E r \in GsmRequesters :
        /\ gsm.requests[r].pc = "done"
        /\ \E i, j \in 1..Len(gsm.invoked) :
              /\ i < j
              /\ gsm.invoked[i][1] = r /\ gsm.invoked[j][1] = r
              /\ gsm.invoked[i][3]
              /\ gsm.invoked[j][2] > gsm.invoked[i][2]


\* controller c has pressed Ctrl for its window and not yet released it
HoldsInput(c) == igc.input.pc[c] \in {"left_down", "hold", "ctrl_up"}

\* the step moves the cursor or injects a button or key event for controller d
InputEventBy(d) ==
    \/ igc.input.pc[d] = "set_cursor" /\ igc'.input.pc[d] = "ctrl_down"
    \/ igc.input.pc[d] \in {"ctrl_down", "left_down", "hold", "ctrl_up", "release"}
          /\ igc'.input.pc[d] # igc.input.pc[d]
    \/ igc.input.pc[d] = "restore" /\ igc'.input.pc[d] = "idle"
    \/ igc.input.pc[d] = "locked" /\ igc.input.action[d] = "click"
          /\ igc'.input.pc[d] = "unlock"

\* C37: while one controller is between pressing and releasing Ctrl and the
\* mouse button for its window, no other controller moves the cursor or
\* injects a click or key event
InputSequencesExclusive ==
    [][\A c, d \in Controllers : (c # d /\ HoldsInput(c)) => ~InputEventBy(d)]_vars


\* C38: when move_character has returned, by its success path or by its
\* handler, neither Ctrl nor the left mouse button is held
NothingHeldAfterMove ==
    gc.controller.pc = "returned" => (~gc.controller.ctrl /\ ~gc.controller.left)

============================================================================
